---- MODULE Spec2Model ----
(***************************************************************************)
(* The weekly planner of DnD-TDL (src/src/components/DragDropTodoList.tsx):*)
(* the todo list, hit-testing of a canvas point against the day areas,     *)
(* column packing (snapTodosToSections), the drag lifecycle and the calls  *)
(* to the remote "todos" table.                                            *)
(*                                                                         *)
(* Lengths are held in sub-pixels (1 px = SubPx units) so that the shrunk  *)
(* row height availableHeight / adjustedTasksPerColumn is exact.  Dates    *)
(* are day numbers: day d is in week d \div 7 and d % 7 = 0 is a Monday    *)
(* (startOfWeek(..., weekStartsOn: 1)).  A day area's id is held without   *)
(* its "-day" suffix.                                                      *)
(***************************************************************************)
EXTENDS Integers, Sequences, FiniteSets, TLC

VARIABLES
  todos,        \* useState<Todo[]>: the local list, in list order
  activeId,     \* useState<string | null>: the id shown as being dragged
  weekStart,    \* currentWeekStart, as a week number
  geom,         \* live geometry: the canvas rect and the day areas in DOM order
  dragging,     \* dnd-kit's active draggable id (NoId when no gesture is in progress)
  snapTimers,   \* pending setTimeout(snapTodosToSections, ...) callbacks
  db,           \* the remote todos table, rows in created_at order
  net,          \* calls to the remote table that have not yet returned to the client
  nextId,       \* ids handed out so far (crypto.randomUUID never repeats)
  saves,        \* the ids saveTodoToDatabase was called with, in call order
  audit,        \* the rows of the remote todo_history table, as a set
  failed,       \* history: the ids a write to the todos table has failed for
  goals,        \* useState<Goal[]> of the goals views, in list order
  last          \* history: what the last handler did (read by the properties only)

vars == <<todos, activeId, weekStart, geom, dragging, snapTimers, db, net, nextId, saves, audit, failed,
          goals, last>>

---------------------------------------------------------------------------
(* Bounds of the model *)

MaxTodos == 2
MaxNet == 1
MaxAwait == 1
MaxGoals == 3
MaxEdited == 2
MaxCount == 1
MaxTimers == 2
MaxWeek == 1
MaxPack == 4
MaxIds == 2

(* Constants of snapTodosToSections and handleDragEnd *)

taskHeight == 35
headerHeight == 90
bottomPadding == 5
columnWidth == 170
columnSpacing == 20
leftPadding == 10
clampRight == 80
clampBottom == 30
(* gap-4 / mb-4 between the day areas, and the page's px-4 *)
gridGap == 16
pagePad == 16

(* null for scheduledDate / a detected date, and the "backlog" result of
   detectDateFromPosition, as numbers outside the day numbers *)
NoDate == -1
BacklogHit == -2
(* null for activeId *)
NoId == 0

---------------------------------------------------------------------------
(* Arithmetic *)

Max2(a, b) == IF a >= b THEN a ELSE b
Min2(a, b) == IF a <= b THEN a ELSE b

RECURSIVE Gcd(_, _)
Gcd(a, b) == IF b = 0 THEN a ELSE Gcd(b, a % b)

RECURSIVE LcmUpTo(_)
LcmUpTo(n) == IF n <= 1 THEN 1 ELSE LET l == LcmUpTo(n - 1) IN (l * n) \div Gcd(l, n)

(* Sub-pixels per pixel: divisible by every row count a bucket can be
   compressed to *)
SubPx == LcmUpTo(Max2(Max2(MaxTodos, MaxPack), 10))
Px(n) == n * SubPx

(* Math.ceil(a / b) for a >= 0, b > 0 *)
CeilDiv(a, b) == (a + b - 1) \div b

---------------------------------------------------------------------------
(* Dates and day areas *)

DayNames == <<"Monday", "Tuesday", "Wednesday", "Thursday", "Friday", "Saturday", "Sunday">>

(* format(date, "EEEE") *)
FormatEEEE(d) == DayNames[(d % 7) + 1]

(* weekDays: the seven {name, fullDate} of the viewed week *)
WeekDays(w) == [i \in 1..7 |-> [name |-> FormatEEEE(7 * w + i - 1), fullDate |-> 7 * w + i - 1]]

Rect(l, t, w, h) == [left |-> l, top |-> t, width |-> w, height |-> h]
RectRight(r) == r.left + r.width
RectBottom(r) == r.top + r.height

---------------------------------------------------------------------------
(* Hit-testing: detectDateFromPosition *)

(* The containment test of one day area: the canvas point (x, y), moved to
   viewport coordinates, against the area's bounding rect *)
InDayArea(x, y, g, k) ==
  LET rect == g.zones[k].rect
      relativeX == x + g.canvas.left
      relativeY == y + g.canvas.top
  IN /\ relativeX >= rect.left
     /\ relativeX <= RectRight(rect)
     /\ relativeY >= rect.top
     /\ relativeY <= RectBottom(rect)

(* A scan that lets the last containing area win, to tell from FirstDayArea *)
LastDayArea(x, y, g) ==
  LET hits == {k \in 1..Len(g.zones) : InDayArea(x, y, g, k)}
  IN IF hits = {} THEN 0 ELSE CHOOSE k \in hits : \A j \in hits : k >= j

(* The for-of loop over querySelectorAll("[data-day-area]"): the first area
   in document order that contains the point, 0 when none does *)
FirstDayArea(x, y, g) ==
  LET hits == {k \in 1..Len(g.zones) : InDayArea(x, y, g, k)}
  IN IF hits = {} THEN 0 ELSE CHOOSE k \in hits : \A j \in hits : k <= j

(* A lookup in the week of the first render, whatever week is viewed, to
   tell from DayAreaResult *)
DayAreaResultFirstWeek(dayId, w) ==
  IF dayId = "incomplete" THEN NoDate
  ELSE IF dayId = "backlog" THEN BacklogHit
  ELSE LET m == {i \in 1..7 : WeekDays(0)[i].name = dayId}
       IN IF m = {} THEN NoDate
          ELSE WeekDays(0)[CHOOSE i \in m : \A j \in m : i <= j].fullDate

(* What a matched area returns: null for "incomplete-day", "backlog" for
   "backlog-day", else the fullDate of the weekDays entry with that name *)
DayAreaResult(dayId, w) ==
  IF dayId = "incomplete" THEN NoDate
  ELSE IF dayId = "backlog" THEN BacklogHit
  ELSE LET m == {i \in 1..7 : WeekDays(w)[i].name = dayId}
       IN IF m = {} THEN NoDate
          ELSE WeekDays(w)[CHOOSE i \in m : \A j \in m : i <= j].fullDate

DetectDateFromPosition(x, y, g, w) ==
  LET k == FirstDayArea(x, y, g)
  IN IF k = 0 THEN NoDate ELSE DayAreaResult(g.zones[k].id, w)

---------------------------------------------------------------------------
(* Column packing: snapTodosToSections *)

(* A filter that counts every item of the list, to tell from SameDayAs *)
SameDayAsEvery(t, todo) == TRUE

(* The filter that counts the items of todo's day area: by the backlog
   marker for a backlog item, else by isSameDay on scheduledDate *)
SameDayAs(t, todo) ==
  IF todo.dayOfWeek = "backlog" THEN t.dayOfWeek = "backlog"
  ELSE IF todo.scheduledDate # NoDate
       THEN t.scheduledDate # NoDate /\ t.scheduledDate = todo.scheduledDate
       ELSE FALSE

(* document.querySelector(`[data-day-area="${dayAreaId}"]`): the first area
   with that id, 0 when there is none *)
QueryDayArea(g, dayAreaId) ==
  LET m == {k \in 1..Len(g.zones) : g.zones[k].id = dayAreaId}
  IN IF m = {} THEN 0 ELSE CHOOSE k \in m : \A j \in m : k <= j

(* A layout whose columns are columnWidth apart, without columnSpacing, to
   tell from PackedPosition *)
PackedPositionNoSpacing(dayRect, canvasRect, itemsInSameDay, totalTasks) ==
  LET availableHeight == dayRect.height - Px(headerHeight) - Px(bottomPadding)
      tasksPerColumn == Max2(1, availableHeight \div Px(taskHeight))
  IN [x |-> dayRect.left - canvasRect.left + Px(leftPadding)
              + (itemsInSameDay \div tasksPerColumn) * Px(columnWidth),
      y |-> dayRect.top - canvasRect.top + Px(headerHeight)
              + (itemsInSameDay % tasksPerColumn) * Px(taskHeight)]

(* The multi-column layout calculation for the item with itemsInSameDay
   earlier items in a day area that holds totalTasks items.  A day area is
   at least 36 px wide (p-4 and border-2), so availableWidth >= 0 and
   maxColumns >= 0; with maxColumns = 0, Math.ceil(totalTasks / 0) is
   Infinity: the row height is availableHeight / Infinity = 0, the column
   Math.floor(n / Infinity) = 0 and the row n % Infinity = n. *)
PackedPosition(dayRect, canvasRect, itemsInSameDay, totalTasks) ==
  LET availableHeight == dayRect.height - Px(headerHeight) - Px(bottomPadding)
      tasksPerColumn == Max2(1, availableHeight \div Px(taskHeight))
      availableWidth == dayRect.width - Px(leftPadding) * 2
      maxColumns == availableWidth \div Px(columnWidth + columnSpacing)
      columnIndex == itemsInSameDay \div tasksPerColumn
      taskIndexInColumn == itemsInSameDay % tasksPerColumn
  IN IF columnIndex >= maxColumns
     THEN LET infinite == maxColumns = 0
              adjustedTasksPerColumn == IF infinite THEN 0 ELSE CeilDiv(totalTasks, maxColumns)
              adjustedTaskHeight ==
                IF infinite THEN 0
                ELSE Min2(Px(taskHeight), availableHeight \div adjustedTasksPerColumn)
              column == IF infinite THEN 0 ELSE itemsInSameDay \div adjustedTasksPerColumn
              row == IF infinite THEN itemsInSameDay ELSE itemsInSameDay % adjustedTasksPerColumn
          IN [x |-> dayRect.left - canvasRect.left + Px(leftPadding)
                      + column * Px(columnWidth + columnSpacing),
              y |-> dayRect.top - canvasRect.top + Px(headerHeight)
                      + row * adjustedTaskHeight]
     ELSE [x |-> dayRect.left - canvasRect.left + Px(leftPadding)
                   + columnIndex * Px(columnWidth + columnSpacing),
           y |-> dayRect.top - canvasRect.top + Px(headerHeight)
                   + taskIndexInColumn * Px(taskHeight)]

(* A callback that moves the todo by its slot's offset in the day area from
   where it is now, to tell from SnapTodo *)
SnapTodoFromCurrent(currentTodos, index, g) ==
  LET todo == currentTodos[index]
  IN IF todo.scheduledDate = NoDate /\ todo.dayOfWeek # "backlog" THEN todo
     ELSE LET k == QueryDayArea(g, IF todo.dayOfWeek = "backlog" THEN "backlog"
                                   ELSE FormatEEEE(todo.scheduledDate))
          IN IF k = 0 THEN todo
             ELSE LET n == Cardinality({j \in 1..(index - 1) : SameDayAs(currentTodos[j], todo)})
                  IN [todo EXCEPT !.position =
                        [x |-> todo.position.x + Px(leftPadding),
                         y |-> todo.position.y + Px(headerHeight) + n * Px(taskHeight)]]

(* A callback without the guard for unscheduled todos, which packs them into
   the "incomplete" area, to tell from SnapTodo *)
SnapTodoUnguarded(currentTodos, index, g) ==
  LET todo == currentTodos[index]
      unscheduled == todo.scheduledDate = NoDate /\ todo.dayOfWeek # "backlog"
      k == QueryDayArea(g, IF todo.dayOfWeek = "backlog" THEN "backlog"
                           ELSE IF unscheduled THEN "incomplete"
                           ELSE FormatEEEE(todo.scheduledDate))
      same(t) == IF unscheduled THEN t.scheduledDate = NoDate /\ t.dayOfWeek # "backlog"
                 ELSE SameDayAs(t, todo)
  IN IF k = 0 THEN todo
     ELSE [todo EXCEPT !.position =
             PackedPosition(g.zones[k].rect, g.canvas,
                            Cardinality({j \in 1..(index - 1) : same(currentTodos[j])}),
                            Cardinality({j \in 1..Len(currentTodos) : same(currentTodos[j])}))]

(* The callback of currentTodos.map: the todo at index, repositioned *)
SnapTodo(currentTodos, index, g) ==
  LET todo == currentTodos[index]
  IN IF todo.scheduledDate = NoDate /\ todo.dayOfWeek # "backlog" THEN todo
     ELSE LET dayAreaId == IF todo.dayOfWeek = "backlog" THEN "backlog"
                           ELSE FormatEEEE(todo.scheduledDate)
              k == QueryDayArea(g, dayAreaId)
          IN IF k = 0 THEN todo
             ELSE LET itemsInSameDay ==
                        Cardinality({j \in 1..(index - 1) : SameDayAs(currentTodos[j], todo)})
                      totalTasks ==
                        Cardinality({j \in 1..Len(currentTodos) : SameDayAs(currentTodos[j], todo)})
                  IN [todo EXCEPT !.position =
                        PackedPosition(g.zones[k].rect, g.canvas, itemsInSameDay, totalTasks)]

SnapTodosToSections(currentTodos, g) ==
  [i \in 1..Len(currentTodos) |-> SnapTodo(currentTodos, i, g)]


---------------------------------------------------------------------------
(* Geometry supplied by the rendering layer, in px: the grid of day areas
   (a row of Incomplete, Monday..Wednesday, a row of Thursday..Sunday, the
   Backlog row below them) under a canvas that covers the page *)

Area(id, l, t, w, h) == [id |-> id, rect |-> Rect(Px(l), Px(t), Px(w), Px(h))]

GridGeom(W, H, BH, topY) ==
  LET col(c) == pagePad + c * (W + gridGap)
      row2 == topY + H + gridGap
      row3 == row2 + H + gridGap
  IN [canvas |-> Rect(0, 0, Px(2 * pagePad + 4 * W + 3 * gridGap), Px(row3 + BH + gridGap)),
      zones |-> << Area("incomplete", col(0), topY, W, H),
                   Area("Monday", col(1), topY, W, H),
                   Area("Tuesday", col(2), topY, W, H),
                   Area("Wednesday", col(3), topY, W, H),
                   Area("Thursday", col(0), row2, W, H),
                   Area("Friday", col(1), row2, W, H),
                   Area("Saturday", col(2), row2, W, H),
                   Area("Sunday", col(3), row2, W, H),
                   Area("backlog", col(0), row3, 4 * W + 3 * gridGap, BH) >>]

(* A wide window, a narrow one whose day areas fit no 190 px column, and one
   whose day areas fit one column of two rows *)
WideGeom == GridGeom(400, 200, 150, 60)
NarrowGeom == GridGeom(200, 130, 130, 60)
MidGeom == GridGeom(230, 165, 130, 60)

(* One day area "Monday" with rect {left: 0, top: 0, width: 170, height: 400},
   and the same area 400 px wide, which fits two 190 px columns *)
ScenarioGeom ==
  [canvas |-> Rect(0, 0, Px(800), Px(600)),
   zones |-> << Area("Monday", 0, 0, 170, 400) >>]
ScenarioWideGeom ==
  [canvas |-> Rect(0, 0, Px(800), Px(600)),
   zones |-> << Area("Monday", 0, 0, 400, 400) >>]

(* Day areas that share edges and overlap, as hit-testing may be handed:
   Monday and Tuesday share the edge x = 200, and the backlog area lies
   over a part of both *)
OverlapGeom ==
  [canvas |-> Rect(0, 0, Px(800), Px(600)),
   zones |-> << Area("Monday", 0, 0, 200, 200),
                Area("Tuesday", 200, 0, 200, 200),
                Area("backlog", 100, 100, 200, 200),
                Area("incomplete", 0, 300, 100, 100) >>]

---------------------------------------------------------------------------
(* The Todo record *)

Pos(x, y) == [x |-> x, y |-> y]

(* Hours are counted in tenths, so that the half hours of the inputs
   (step="0.5") are integers *)
HourUnit == 10
Hr(h) == h * HourUnit

MkTodo(id, text, position, scheduledDate, dayOfWeek, isEditing, isInDatabase) ==
  [id |-> id, text |-> text, estimatedHours |-> Hr(1), status |-> "active",
   position |-> position, scheduledDate |-> scheduledDate, dayOfWeek |-> dayOfWeek,
   isEditing |-> isEditing, isInDatabase |-> isInDatabase]

NoTodo == MkTodo(NoId, "", Pos(0, 0), NoDate, "none", FALSE, FALSE)

(* The bucket of a todo as the pair the code keeps *)
Bucket(t) == [scheduledDate |-> t.scheduledDate, dayOfWeek |-> t.dayOfWeek]

History(op, id, pre, delta) == [op |-> op, id |-> id, pre |-> pre, delta |-> delta]
HistoryTyped(op, id, pre, typed) ==
  [op |-> op, id |-> id, pre |-> pre, delta |-> Pos(0, 0), typed |-> typed]


---------------------------------------------------------------------------
(* The remote todos table and the calls to it *)

(* dbTodo of saveTodoToDatabase: the row written for a todo *)
DbTodo(todo) ==
  [id |-> todo.id, text |-> todo.text, estimatedHours |-> todo.estimatedHours,
   status |-> todo.status, position_x |-> todo.position.x, position_y |-> todo.position.y,
   dayOfWeek |-> todo.dayOfWeek, scheduleddate |-> todo.scheduledDate]

(* transformedTodos of fetchTodos: a row as a Todo, isInDatabase set and no
   isEditing *)
TransformRow(row) ==
  [id |-> row.id, text |-> row.text,
   estimatedHours |-> IF row.estimatedHours = 0 THEN Hr(1) ELSE row.estimatedHours,
   status |-> row.status, position |-> Pos(row.position_x, row.position_y),
   scheduledDate |-> row.scheduleddate, dayOfWeek |-> row.dayOfWeek,
   isEditing |-> FALSE, isInDatabase |-> TRUE]

(* select("*").neq("status", "deleted").order("created_at") *)
SelectTodos(table) == LET live(r) == r.status # "deleted" IN SelectSeq(table, live)

(* upsert([dbTodo], {onConflict: "id"}) *)
UpsertRow(table, row) ==
  IF \E k \in 1..Len(table) : table[k].id = row.id
  THEN [k \in 1..Len(table) |-> IF table[k].id = row.id THEN row ELSE table[k]]
  ELSE Append(table, row)

(* update(dbUpdates).eq("id", id): the named columns of the matching row *)
UpdateRow(table, id, dbUpdates) ==
  [k \in 1..Len(table) |->
     IF table[k].id = id
     THEN [f \in DOMAIN table[k] |-> IF f \in DOMAIN dbUpdates THEN dbUpdates[f] ELSE table[k][f]]
     ELSE table[k]]

(* A call in flight: sent, then answered by the server (ok with its result,
   or err), then returned to the awaiting client code *)
Call(kind, id, payload, cont) ==
  [kind |-> kind, id |-> id, payload |-> payload, cont |-> cont,
   phase |-> "sent", result |-> <<>>]

RemoveAt(s, k) == [i \in 1..(Len(s) - 1) |-> IF i < k THEN s[i] ELSE s[i + 1]]


---------------------------------------------------------------------------
(* The handlers of DragDropTodoList and CanvasTodoItem *)

(* todos.find((todo) => todo.id === id) as an index, 0 when absent *)
FindTodo(list, id) ==
  LET m == {k \in 1..Len(list) : list[k].id = id}
  IN IF m = {} THEN 0 ELSE CHOOSE k \in m : \A j \in m : k <= j

(* isDateInCurrentWeek *)
IsDateInCurrentWeek(d, w) == d >= 7 * w /\ d <= 7 * w + 6

(* The filter in front of the CanvasTodoItem list: the todos that are
   rendered, and so can be edited or dragged *)
Rendered(todo, w) ==
  \/ todo.dayOfWeek = "backlog"
  \/ todo.scheduledDate = NoDate /\ todo.dayOfWeek = "none"
  \/ todo.scheduledDate # NoDate /\ IsDateInCurrentWeek(todo.scheduledDate, w)

(* The bucket fields written from a detectDateFromPosition result *)
ScheduledDateOf(detectedDate) == IF detectedDate = BacklogHit THEN NoDate ELSE detectedDate
DayOfWeekOf(detectedDate) ==
  IF detectedDate = BacklogHit THEN "backlog"
  ELSE IF detectedDate # NoDate THEN FormatEEEE(detectedDate) ELSE "none"

(* A clamp without the lower bound 0, to tell from ClampX *)
ClampXNoFloor(x, canvasRect) == Min2(canvasRect.width - Px(clampRight), x)

(* The clamp of handleDragEnd *)
ClampX(x, canvasRect) == Max2(0, Min2(canvasRect.width - Px(clampRight), x))
ClampY(y, canvasRect) == Max2(0, Min2(canvasRect.height - Px(clampBottom), y))

(* An updatedTodo that takes the first slot of the day area it is dropped
   in, to tell from DraggedTodo *)
DraggedTodoPacked(todoToUpdate, delta, g, w) ==
  LET newX == ClampX(todoToUpdate.position.x + delta.x, g.canvas)
      newY == ClampY(todoToUpdate.position.y + delta.y, g.canvas)
      k == FirstDayArea(newX, newY, g)
      detectedDate == DetectDateFromPosition(newX, newY, g, w)
  IN [todoToUpdate EXCEPT !.position = IF k = 0 THEN Pos(newX, newY)
                                       ELSE PackedPosition(g.zones[k].rect, g.canvas, 0, 1),
                          !.scheduledDate = ScheduledDateOf(detectedDate),
                          !.dayOfWeek = DayOfWeekOf(detectedDate)]

(* updatedTodo of handleDragEnd *)
DraggedTodo(todoToUpdate, delta, g, w) ==
  LET newX == ClampX(todoToUpdate.position.x + delta.x, g.canvas)
      newY == ClampY(todoToUpdate.position.y + delta.y, g.canvas)
      detectedDate == DetectDateFromPosition(newX, newY, g, w)
  IN [todoToUpdate EXCEPT !.position = Pos(newX, newY),
                          !.scheduledDate = ScheduledDateOf(detectedDate),
                          !.dayOfWeek = DayOfWeekOf(detectedDate)]

(* dbUpdates of updateTodo: the columns named by a Partial<Todo> *)
DbUpdates(updates) ==
  LET D == DOMAIN updates
      cols == (D \cap {"text", "estimatedHours", "status", "dayOfWeek"})
                \cup (IF "position" \in D THEN {"position_x", "position_y"} ELSE {})
                \cup (IF "scheduledDate" \in D THEN {"scheduleddate"} ELSE {})
  IN [c \in cols |->
        CASE c = "position_x" -> updates.position.x
          [] c = "position_y" -> updates.position.y
          [] c = "scheduleddate" -> updates.scheduledDate
          [] OTHER -> updates[c]]

(* { ...todo, ...updates } *)
Merge(todo, updates) ==
  [f \in DOMAIN todo |-> IF f \in DOMAIN updates THEN updates[f] ELSE todo[f]]

Other == History("other", NoId, NoTodo, Pos(0, 0))

(* An addTodo without the check for the id, to tell from AddTodo *)
AddTodoUnchecked(prev, todo) == Append(prev, todo)

(* addTodo: the updater of setTodos leaves prev as it is when it holds a
   todo with the id *)
AddTodo(prev, todo) ==
  IF \E k \in 1..Len(prev) : prev[k].id = todo.id THEN prev ELSE Append(prev, todo)

(* handleDoubleClick on the canvas at (x, y), then addTodo *)
HandleDoubleClick(x, y) ==
  /\ nextId < MaxIds
  /\ Len(todos) < MaxTodos
  /\ LET detectedDate == DetectDateFromPosition(x, y, geom, weekStart)
         newTodo == [id |-> nextId + 1, text |-> "", estimatedHours |-> Hr(1),
                     status |-> "active", position |-> Pos(x, y),
                     scheduledDate |-> ScheduledDateOf(detectedDate),
                     dayOfWeek |-> DayOfWeekOf(detectedDate),
                     isEditing |-> TRUE, isInDatabase |-> FALSE]
     IN todos' = AddTodo(todos, newTodo)
  /\ nextId' = nextId + 1
  /\ last' = History("doubleClick", nextId + 1, NoTodo, Pos(x, y))
  /\ UNCHANGED <<activeId, weekStart, geom, dragging, snapTimers, db, net, saves, audit, failed, goals>>

(* handleDoubleClick when crypto.randomUUID() returns id: the draw is
   random, and nothing but addTodo keeps it from repeating an id of the
   list *)
HandleDoubleClickDrawn(id, x, y) ==
  /\ id \in 1..MaxIds
  /\ IF FindTodo(todos, id) # 0 THEN TRUE ELSE Len(todos) < MaxTodos
  /\ LET detectedDate == DetectDateFromPosition(x, y, geom, weekStart)
         newTodo == [id |-> id, text |-> "", estimatedHours |-> Hr(1),
                     status |-> "active", position |-> Pos(x, y),
                     scheduledDate |-> ScheduledDateOf(detectedDate),
                     dayOfWeek |-> DayOfWeekOf(detectedDate),
                     isEditing |-> TRUE, isInDatabase |-> FALSE]
     IN todos' = AddTodo(todos, newTodo)
  /\ nextId' = IF id > nextId THEN id ELSE nextId
  /\ last' = History("addTodo", id,
                     IF FindTodo(todos, id) # 0 THEN todos[FindTodo(todos, id)] ELSE NoTodo,
                     Pos(x, y))
  /\ UNCHANGED <<activeId, weekStart, geom, dragging, snapTimers, db, net, saves, audit, failed, goals>>

(* A handleTodoUpdate that leaves isInDatabase as it was, to tell from
   TodoUpdateList *)
TodoUpdateListUnmarked(list, id, updates) ==
  [k \in 1..Len(list) |-> IF list[k].id = id THEN Merge(list[k], updates) ELSE list[k]]

(* handleTodoUpdate(id, updates): the list and the calls it leaves *)
TodoUpdateList(list, id, updates) ==
  [k \in 1..Len(list) |->
     IF list[k].id = id
     THEN LET updatedTodo == Merge(list[k], updates)
          IN IF ~list[k].isInDatabase /\ updatedTodo.text # "" /\ updatedTodo.estimatedHours > 0
             THEN [updatedTodo EXCEPT !.isInDatabase = TRUE]
             ELSE updatedTodo
     ELSE list[k]]

TodoUpdateCalls(list, id, updates) ==
  LET k == FindTodo(list, id)
  IN IF k = 0 THEN <<>>
     ELSE LET updatedTodo == Merge(list[k], updates)
          IN IF ~list[k].isInDatabase /\ updatedTodo.text # "" /\ updatedTodo.estimatedHours > 0
             THEN << Call("upsert", id, DbTodo([updatedTodo EXCEPT !.isInDatabase = TRUE]), "save") >>
             ELSE IF list[k].isInDatabase
                  THEN << Call("update", id, DbUpdates(updates), "none") >>
                  ELSE <<>>

(* The ids handleTodoUpdate calls saveTodoToDatabase with *)
TodoUpdateSaves(list, id, updates) ==
  LET calls == TodoUpdateCalls(list, id, updates)
  IN IF calls # <<>> /\ calls[1].kind = "upsert" THEN << id >> ELSE <<>>

(* A row of todo_history, without its snapshot *)
AuditRow(id, eventType) == [todo_id |-> id, event_type |-> eventType]

(* logTodoUpdated(todoId, oldTodo, newTodo): the rows it inserts *)
LogTodoUpdated(todoId, oldTodo, newTodo) ==
  IF oldTodo.status # newTodo.status /\ newTodo.status = "completed"
  THEN {AuditRow(todoId, "completed")}
  ELSE IF \/ oldTodo.text # newTodo.text
          \/ oldTodo.status # newTodo.status
          \/ oldTodo.estimatedHours # newTodo.estimatedHours
       THEN {AuditRow(todoId, "updated")}
       ELSE {}

(* The rows handleTodoUpdate logs: logTodoUpdated runs for a todo that is in
   the database, in the same call as updateTodo and without its answer *)
TodoUpdateAudit(list, id, updates) ==
  LET k == FindTodo(list, id)
  IN IF k # 0 /\ list[k].isInDatabase
     THEN LogTodoUpdated(id, list[k], Merge(list[k], updates))
     ELSE {}

(* Calls the server has not answered yet, and answers whose awaiting code
   has not resumed yet *)
InFlight(calls) == Cardinality({i \in 1..Len(calls) : calls[i].phase = "sent"})
Awaited(calls) == Cardinality({i \in 1..Len(calls) : calls[i].phase # "sent"})

(* No answer is waiting for the code that awaits it *)
Settled == Awaited(net) = 0

(* deleteTodo(id): the item leaves the list and the row is marked deleted *)
DeleteTodo(id) ==
  /\ InFlight(net) < MaxNet
  /\ todos' = LET keep(t) == t.id # id IN SelectSeq(todos, keep)
  /\ net' = Append(net, Call("update", id, [status |-> "deleted"], "delete"))
  /\ UNCHANGED <<activeId, weekStart, geom, dragging, snapTimers, db, nextId, saves, audit, failed, goals>>

(* handleTextSubmit of the item being edited, with tempText typed: a
   non-blank text is committed through onUpdate, a blank one deletes *)
HandleTextSubmit(id, tempText) ==
  /\ FindTodo(todos, id) # 0
  /\ todos[FindTodo(todos, id)].isEditing
  /\ Rendered(todos[FindTodo(todos, id)], weekStart)
  /\ IF tempText # ""
     THEN LET updates == [text |-> tempText, isEditing |-> FALSE]
              calls == TodoUpdateCalls(todos, id, updates)
          IN /\ InFlight(net) + Len(calls) <= MaxNet
             /\ todos' = TodoUpdateList(todos, id, updates)
             /\ net' = net \o calls
             /\ saves' = saves \o TodoUpdateSaves(todos, id, updates)
             /\ audit' = audit \cup TodoUpdateAudit(todos, id, updates)
             /\ last' = History("textSubmit", id, todos[FindTodo(todos, id)], Pos(0, 0))
             /\ UNCHANGED <<activeId, weekStart, geom, dragging, snapTimers, db, nextId, failed, goals>>
     ELSE /\ DeleteTodo(id)
          /\ last' = History("blankSubmit", id, todos[FindTodo(todos, id)], Pos(0, 0))

(* Strings typed into an input are tuples of characters.  parseFloat reads
   an optional sign, digits, and a fraction, and stops at the first
   character that fits none of them; without a digit it gives NaN.  The
   value is kept to the tenth, which is exact for the strings typed here;
   exponents are not typed *)
IsDigit(c) == c \in {"0", "1", "2", "3", "4", "5", "6", "7", "8", "9"}
DigitValue(c) ==
  CASE c = "0" -> 0 [] c = "1" -> 1 [] c = "2" -> 2 [] c = "3" -> 3 [] c = "4" -> 4
    [] c = "5" -> 5 [] c = "6" -> 6 [] c = "7" -> 7 [] c = "8" -> 8 [] OTHER -> 9

RECURSIVE LeadDigits(_)
LeadDigits(str) ==
  IF str = <<>> \/ ~IsDigit(Head(str)) THEN 0 ELSE 1 + LeadDigits(Tail(str))

RECURSIVE DigitsValue(_, _)
DigitsValue(str, n) ==
  IF n = 0 THEN 0 ELSE DigitsValue(str, n - 1) * 10 + DigitValue(str[n])

RECURSIVE TrimStart(_)
TrimStart(str) == IF str # <<>> /\ Head(str) = " " THEN TrimStart(Tail(str)) ELSE str

NaN == [nan |-> TRUE, value |-> 0]

ParseFloat(str) ==
  LET trimmed == TrimStart(str)
      negative == trimmed # <<>> /\ Head(trimmed) = "-"
      unsigned == IF trimmed # <<>> /\ Head(trimmed) \in {"-", "+"} THEN Tail(trimmed) ELSE trimmed
      ni == LeadDigits(unsigned)
      rest == SubSeq(unsigned, ni + 1, Len(unsigned))
      fraction == IF rest # <<>> /\ Head(rest) = "." THEN Tail(rest) ELSE <<>>
      nf == LeadDigits(fraction)
      magnitude == DigitsValue(unsigned, ni) * HourUnit
                     + (IF nf = 0 THEN 0 ELSE DigitValue(fraction[1]))
  IN IF ni = 0 /\ nf = 0 THEN NaN
     ELSE [nan |-> FALSE, value |-> IF negative THEN 0 - magnitude ELSE magnitude]

(* The value of an <input type="number">: what was typed when it is a valid
   floating-point number, the empty string otherwise *)
NumberInputValue(typed) ==
  LET unsigned == IF typed # <<>> /\ Head(typed) = "-" THEN Tail(typed) ELSE typed
      ni == LeadDigits(unsigned)
      rest == SubSeq(unsigned, ni + 1, Len(unsigned))
      valid == \/ ni > 0 /\ rest = <<>>
               \/ /\ rest # <<>>
                  /\ Head(rest) = "."
                  /\ Len(rest) > 1
                  /\ LeadDigits(Tail(rest)) = Len(rest) - 1
  IN IF valid THEN typed ELSE <<>>

(* A handleHoursSubmit that takes every number, to tell from HoursAccepted *)
HoursAcceptedAnyNumber(hours) == ~hours.nan

(* !isNaN(hours) && hours > 0 *)
HoursAccepted(hours) == ~hours.nan /\ hours.value > 0

(* handleHoursSubmit of an item whose hours input holds what was typed: a
   positive number is committed through onUpdate, anything else is dropped;
   the input closes *)
HandleHoursSubmit(id, typed) ==
  /\ dragging = NoId
  /\ FindTodo(todos, id) # 0
  /\ Rendered(todos[FindTodo(todos, id)], weekStart)
  /\ \A k \in 1..Len(todos) : ~todos[k].isEditing
  /\ LET hours == ParseFloat(NumberInputValue(typed))
     IN IF HoursAccepted(hours)
        THEN LET updates == [estimatedHours |-> hours.value]
                 calls == TodoUpdateCalls(todos, id, updates)
             IN /\ InFlight(net) + Len(calls) <= MaxNet
                /\ todos' = TodoUpdateList(todos, id, updates)
                /\ net' = net \o calls
                /\ saves' = saves \o TodoUpdateSaves(todos, id, updates)
                /\ audit' = audit \cup TodoUpdateAudit(todos, id, updates)
        ELSE UNCHANGED <<todos, net, saves, audit>>
  /\ last' = HistoryTyped("hoursSubmit", id, todos[FindTodo(todos, id)], typed)
  /\ UNCHANGED <<activeId, weekStart, geom, dragging, snapTimers, db, nextId, failed, goals>>

(* The second click of a double click on an item's label:
   setIsEditingText(true).  isEditing stands for the item's isEditingText,
   which starts as todo.isEditing.  (The first click of the pair runs
   handleToggleComplete, which writes a field "completed" that no column of
   the table takes; it is left out.) *)
StartEditText(id) ==
  /\ dragging = NoId
  /\ FindTodo(todos, id) # 0
  /\ Rendered(todos[FindTodo(todos, id)], weekStart)
  /\ \A k \in 1..Len(todos) : ~todos[k].isEditing
  /\ todos' = [todos EXCEPT ![FindTodo(todos, id)].isEditing = TRUE]
  /\ last' = Other
  /\ UNCHANGED <<activeId, weekStart, geom, dragging, snapTimers, db, net, nextId, saves, audit, failed, goals>>

(* An Escape that only closes the input, to tell from HandleTextEscape *)
HandleTextEscapeKeep(id) ==
  /\ FindTodo(todos, id) # 0
  /\ todos[FindTodo(todos, id)].isEditing
  /\ Rendered(todos[FindTodo(todos, id)], weekStart)
  /\ todos' = [todos EXCEPT ![FindTodo(todos, id)].isEditing = FALSE]
  /\ last' = History("escape", id, todos[FindTodo(todos, id)], Pos(0, 0))
  /\ UNCHANGED <<activeId, weekStart, geom, dragging, snapTimers, db, net, nextId,
                 saves, audit, failed, goals>>

(* handleTextKeyDown with Escape: the input closes with the typed text
   dropped, and a todo without text is deleted *)
HandleTextEscape(id) ==
  /\ FindTodo(todos, id) # 0
  /\ todos[FindTodo(todos, id)].isEditing
  /\ Rendered(todos[FindTodo(todos, id)], weekStart)
  /\ IF todos[FindTodo(todos, id)].text = ""
     THEN /\ DeleteTodo(id)
          /\ last' = History("escape", id, todos[FindTodo(todos, id)], Pos(0, 0))
     ELSE /\ todos' = [todos EXCEPT ![FindTodo(todos, id)].isEditing = FALSE]
          /\ last' = History("escape", id, todos[FindTodo(todos, id)], Pos(0, 0))
          /\ UNCHANGED <<activeId, weekStart, geom, dragging, snapTimers, db, net, nextId,
                         saves, audit, failed, goals>>

(* handleDragStart: dnd-kit starts a gesture on a rendered item whose inputs
   are closed (useDraggable is disabled while editing, and pressing another
   item blurs, and so submits, an open input) *)
HandleDragStart(id) ==
  /\ dragging = NoId
  /\ FindTodo(todos, id) # 0
  /\ Rendered(todos[FindTodo(todos, id)], weekStart)
  /\ \A k \in 1..Len(todos) : ~todos[k].isEditing
  /\ dragging' = id
  /\ activeId' = id
  /\ last' = Other
  /\ UNCHANGED <<todos, weekStart, geom, snapTimers, db, net, nextId, saves, audit, failed, goals>>

(* handleDragEnd up to its await: the pointer is released after moving by
   delta.  With the item gone from the list the handler returns at once;
   else it rewrites the item and calls updateTodo, whose return
   (DragEndResume) it awaits before setActiveId(null) *)
HandleDragEnd(delta) ==
  /\ dragging # NoId
  /\ dragging' = NoId
  /\ LET k == FindTodo(todos, dragging)
     IN IF k = 0
        THEN /\ last' = History("dragEndGone", dragging, NoTodo, delta)
             /\ UNCHANGED <<todos, activeId, net>>
        ELSE LET updatedTodo == DraggedTodo(todos[k], delta, geom, weekStart)
             IN /\ InFlight(net) < MaxNet
                /\ todos' = [j \in 1..Len(todos) |->
                               IF todos[j].id = dragging THEN updatedTodo ELSE todos[j]]
                /\ net' = Append(net, Call("update", updatedTodo.id,
                                           DbUpdates([position |-> updatedTodo.position,
                                                      scheduledDate |-> updatedTodo.scheduledDate,
                                                      dayOfWeek |-> updatedTodo.dayOfWeek]),
                                           "dragEnd"))
                /\ last' = History("dragEnd", dragging, todos[k], delta)
                /\ UNCHANGED activeId
  /\ UNCHANGED <<weekStart, geom, snapTimers, db, nextId, saves, audit, failed, goals>>

(* The pointer is released at a point of DropTargets or dragged past the
   canvas: delta is what takes the item's position there *)
DropTargets == {Pos(Px(440), Px(100)), Pos(Px(0 - 50), Px(0 - 50))}
ClickPoints == {Pos(Px(440), Px(100))}

DragEndTo(target) ==
  LET k == FindTodo(todos, dragging)
      from == IF k = 0 THEN Pos(0, 0) ELSE todos[k].position
  IN HandleDragEnd(Pos(target.x - from.x, target.y - from.y))

DragEnd == \E target \in DropTargets : DragEndTo(target)

(* goToPreviousWeek / goToNextWeek, and the fetchTodos effect that a change
   of currentWeekStart runs.  The pointer is busy during a gesture, and the
   "d" / "f" keys are ignored while activeId is set *)
GoToWeek(w) ==
  /\ w \in 0..MaxWeek
  /\ w # weekStart
  /\ dragging = NoId
  /\ InFlight(net) < MaxNet
  /\ weekStart' = w
  /\ net' = Append(net, Call("fetch", NoId, <<>>, "fetch"))
  /\ last' = Other
  /\ UNCHANGED <<todos, activeId, geom, dragging, snapTimers, db, nextId, saves, audit, failed, goals>>

(* A createTaskAtCursor without the fallback to the centre, to tell from
   CursorPoint *)
CursorPointRaw(mx, my, canvasRect) == Pos(mx, my)

(* createTaskAtCursor, the "t" key: ignored while a todo is edited or
   dragged; the mouse position, or the centre of the canvas when the mouse
   is outside of it, then as handleDoubleClick *)
CursorPoint(mx, my, canvasRect) ==
  IF mx < 0 \/ my < 0 \/ mx > canvasRect.width \/ my > canvasRect.height
  THEN Pos(canvasRect.width \div 2, canvasRect.height \div 2)
  ELSE Pos(mx, my)

CreateTaskAtCursor(mx, my) ==
  /\ activeId = NoId
  /\ dragging = NoId
  /\ \A k \in 1..Len(todos) : ~todos[k].isEditing
  /\ nextId < MaxIds
  /\ Len(todos) < MaxTodos
  /\ LET p == CursorPoint(mx, my, geom.canvas)
         detectedDate == DetectDateFromPosition(p.x, p.y, geom, weekStart)
         newTodo == [id |-> nextId + 1, text |-> "", estimatedHours |-> Hr(1),
                     status |-> "active", position |-> p,
                     scheduledDate |-> ScheduledDateOf(detectedDate),
                     dayOfWeek |-> DayOfWeekOf(detectedDate),
                     isEditing |-> TRUE, isInDatabase |-> FALSE]
     IN todos' = AddTodo(todos, newTodo)
  /\ nextId' = nextId + 1
  /\ last' = History("createAtCursor", nextId + 1, NoTodo, Pos(mx, my))
  /\ UNCHANGED <<activeId, weekStart, geom, dragging, snapTimers, db, net, saves, audit, failed, goals>>

(* A handleSave that schedules on the first day of the viewed week whatever
   the day chosen, to tell from ModalBucket *)
ModalBucketWeekStart(selectedDay, w) ==
  IF selectedDay = "backlog" THEN [scheduledDate |-> NoDate, dayOfWeek |-> "backlog"]
  ELSE IF selectedDay = "incomplete" THEN [scheduledDate |-> NoDate, dayOfWeek |-> "none"]
  ELSE [scheduledDate |-> 7 * w, dayOfWeek |-> selectedDay]

(* handleSave of TaskModal: the bucket fields for the day chosen in the
   form, the date being the day of that name in the viewed week *)
ModalBucket(selectedDay, w) ==
  IF selectedDay = "backlog" THEN [scheduledDate |-> NoDate, dayOfWeek |-> "backlog"]
  ELSE IF selectedDay = "incomplete" THEN [scheduledDate |-> NoDate, dayOfWeek |-> "none"]
  ELSE LET found == {i \in 1..7 : WeekDays(w)[i].name = selectedDay}
       IN IF found = {}
          THEN [scheduledDate |-> NoDate, dayOfWeek |-> "none"]
          ELSE [scheduledDate |-> WeekDays(w)[CHOOSE i \in found : \A j \in found : i <= j].fullDate,
                dayOfWeek |-> selectedDay]

(* handleSave of TaskModal, its two guards: a blank name, or hours that are
   not a positive number, and nothing is saved *)
ModalAccepts(taskName, hoursTyped) ==
  taskName # "" /\ HoursAccepted(ParseFloat(NumberInputValue(hoursTyped)))

(* handleSaveTask of the mobile list with a todo being edited: the modal's
   task data replace the text, the hours and the bucket of the item, in the
   list and then in its row; a form handleSave refuses changes nothing.  The
   mobile list keeps the items of the same table in its own state; the
   model keeps them in todos *)
HandleSaveTask(id, taskName, hoursTyped, selectedDay) ==
  /\ dragging = NoId
  /\ FindTodo(todos, id) # 0
  /\ Rendered(todos[FindTodo(todos, id)], weekStart)
  /\ \A k \in 1..Len(todos) : ~todos[k].isEditing
  /\ IF ModalAccepts(taskName, hoursTyped)
     THEN /\ InFlight(net) < MaxNet
          /\ LET taskData == ModalBucket(selectedDay, weekStart)
                 hours == ParseFloat(NumberInputValue(hoursTyped)).value
                 editingTodo == todos[FindTodo(todos, id)]
                 updatedTodo == [editingTodo EXCEPT !.text = taskName,
                                                    !.estimatedHours = hours,
                                                    !.scheduledDate = taskData.scheduledDate,
                                                    !.dayOfWeek = taskData.dayOfWeek]
             IN /\ todos' = [k \in 1..Len(todos) |->
                               IF todos[k].id = id THEN updatedTodo ELSE todos[k]]
                /\ net' = Append(net, Call("update", id,
                                           DbUpdates([text |-> taskName,
                                                      estimatedHours |-> hours,
                                                      scheduledDate |-> taskData.scheduledDate,
                                                      dayOfWeek |-> taskData.dayOfWeek]),
                                           "modal"))
          /\ last' = HistoryTyped("modalSave", id, todos[FindTodo(todos, id)], hoursTyped)
     ELSE /\ last' = HistoryTyped("modalRefused", id, todos[FindTodo(todos, id)], hoursTyped)
          /\ UNCHANGED <<todos, net>>
  /\ UNCHANGED <<activeId, weekStart, geom, dragging, snapTimers, db, nextId, saves, audit, failed, goals>>

(* handleSaveTask without a todo being edited: a new item with the modal's
   task data, appended and inserted *)
HandleSaveNewTask(taskName, hoursTyped, selectedDay) ==
  /\ ModalAccepts(taskName, hoursTyped)
  /\ dragging = NoId
  /\ \A k \in 1..Len(todos) : ~todos[k].isEditing
  /\ nextId < MaxIds
  /\ Len(todos) < MaxTodos
  /\ InFlight(net) < MaxNet
  /\ LET taskData == ModalBucket(selectedDay, weekStart)
         hours == ParseFloat(NumberInputValue(hoursTyped)).value
         newTodo == [MkTodo(nextId + 1, taskName, Pos(0, 0), taskData.scheduledDate,
                            taskData.dayOfWeek, FALSE, TRUE) EXCEPT !.estimatedHours = hours]
     IN /\ todos' = Append(todos, newTodo)
        /\ net' = Append(net, Call("upsert", newTodo.id, DbTodo(newTodo), "modal"))
        /\ last' = HistoryTyped("modalCreate", newTodo.id, NoTodo, hoursTyped)
  /\ nextId' = nextId + 1
  /\ UNCHANGED <<activeId, weekStart, geom, dragging, snapTimers, db, saves, audit, failed, goals>>

(* A handleResize that supersedes the pending callbacks, to tell from
   HandleResize *)
HandleResizeDebounced(g) ==
  /\ g # geom
  /\ snapTimers < MaxTimers
  /\ geom' = g
  /\ snapTimers' = 1
  /\ last' = History("resize", NoId, NoTodo, Pos(0, 0))
  /\ UNCHANGED <<todos, activeId, weekStart, dragging, db, net, nextId, saves, audit, failed, goals>>

(* The window is resized: the day areas move and handleResize schedules a
   snapTodosToSections *)
HandleResize(g) ==
  /\ g # geom
  /\ snapTimers < MaxTimers
  /\ geom' = g
  /\ snapTimers' = snapTimers + 1
  /\ last' = History("resize", NoId, NoTodo, Pos(0, 0))
  /\ UNCHANGED <<todos, activeId, weekStart, dragging, db, net, nextId, saves, audit, failed, goals>>

Snapped == History("snap", NoId, NoTodo, Pos(0, 0))

(* A scheduled snapTodosToSections runs *)
SnapTimer ==
  /\ snapTimers > 0
  /\ snapTimers' = snapTimers - 1
  /\ todos' = SnapTodosToSections(todos, geom)
  /\ last' = Snapped
  /\ UNCHANGED <<activeId, weekStart, geom, dragging, db, net, nextId, saves, audit, failed, goals>>

(* The "a" key: alignAllTasks, ignored while a todo is edited or dragged *)
AlignAllTasks ==
  /\ activeId = NoId
  /\ dragging = NoId
  /\ \A k \in 1..Len(todos) : ~todos[k].isEditing
  /\ todos' = SnapTodosToSections(todos, geom)
  /\ last' = Snapped
  /\ UNCHANGED <<activeId, weekStart, geom, dragging, snapTimers, db, net, nextId, saves, audit, failed, goals>>

(* A server step after which a failed write is sent again, to tell from
   Serve *)
ServeRetry(k, ok) ==
  /\ k \in 1..Len(net)
  /\ net[k].phase = "sent"
  /\ net[k].cont \in {"fetch", "dragEnd"} => Awaited(net) < MaxAwait
  /\ LET c == net[k]
     IN /\ net' = IF c.cont \in {"fetch", "dragEnd"}
                  THEN [net EXCEPT ![k].phase = IF ok THEN "ok" ELSE "err",
                                   ![k].result = IF ok /\ c.kind = "fetch"
                                                 THEN SelectTodos(db) ELSE <<>>]
                  ELSE IF ok THEN RemoveAt(net, k) ELSE net
        /\ db' = IF ~ok \/ c.kind = "fetch" THEN db
                 ELSE IF c.kind = "upsert" THEN UpsertRow(db, c.payload)
                 ELSE UpdateRow(db, c.id, c.payload)
        /\ audit' = IF ok /\ c.cont = "save" THEN audit \cup {AuditRow(c.id, "created")}
                    ELSE IF ok /\ c.cont = "delete" THEN audit \cup {AuditRow(c.id, "deleted")}
                    ELSE audit
        /\ failed' = IF ~ok /\ c.kind # "fetch" THEN failed \cup {c.id} ELSE failed
        /\ last' = History(IF ok THEN "served" ELSE "failed", c.id, NoTodo, Pos(0, 0))
  /\ UNCHANGED <<todos, activeId, weekStart, geom, dragging, snapTimers, nextId, saves, goals>>

(* The server answers call k: it runs against the table, or fails.  The
   answer to a fetch or to the updateTodo of handleDragEnd is then awaited
   by client code (FetchResume, DragEndResume); saveTodoToDatabase,
   handleTodoUpdate's updateTodo and deleteTodo do nothing to the list or
   to activeId after their await, so their call ends here; after an answer
   without error saveTodoToDatabase logs the creation and deleteTodo the
   deletion *)
Serve(k, ok) ==
  /\ k \in 1..Len(net)
  /\ net[k].phase = "sent"
  /\ net[k].cont \in {"fetch", "dragEnd"} => Awaited(net) < MaxAwait
  /\ LET c == net[k]
     IN /\ net' = IF c.cont \in {"fetch", "dragEnd"}
                  THEN [net EXCEPT ![k].phase = IF ok THEN "ok" ELSE "err",
                                   ![k].result = IF ok /\ c.kind = "fetch"
                                                 THEN SelectTodos(db) ELSE <<>>]
                  ELSE RemoveAt(net, k)
        /\ db' = IF ~ok \/ c.kind = "fetch" THEN db
                 ELSE IF c.kind = "upsert" THEN UpsertRow(db, c.payload)
                 ELSE UpdateRow(db, c.id, c.payload)
        /\ audit' = IF ok /\ c.cont = "save" THEN audit \cup {AuditRow(c.id, "created")}
                    ELSE IF ok /\ c.cont = "delete" THEN audit \cup {AuditRow(c.id, "deleted")}
                    ELSE audit
        /\ failed' = IF ~ok /\ c.kind # "fetch" THEN failed \cup {c.id} ELSE failed
        /\ last' = History(IF ok THEN "served" ELSE "failed", c.id, NoTodo, Pos(0, 0))
  /\ UNCHANGED <<todos, activeId, weekStart, geom, dragging, snapTimers, nextId, saves, goals>>

(* fetchTodos after its await: the list is replaced by the rows read and a
   snap is scheduled; nothing on an error *)
FetchResume(k) ==
  /\ k \in 1..Len(net)
  /\ net[k].cont = "fetch"
  /\ net[k].phase \in {"ok", "err"}
  /\ net' = RemoveAt(net, k)
  /\ IF net[k].phase = "ok"
     THEN /\ snapTimers < MaxTimers
          /\ todos' = [i \in 1..Len(net[k].result) |-> TransformRow(net[k].result[i])]
          /\ snapTimers' = snapTimers + 1
     ELSE UNCHANGED <<todos, snapTimers>>
  /\ last' = Other
  /\ UNCHANGED <<activeId, weekStart, geom, dragging, db, nextId, saves, audit, failed, goals>>

(* handleDragEnd after its await of updateTodo, which swallows an error *)
DragEndResume(k) ==
  /\ k \in 1..Len(net)
  /\ net[k].cont = "dragEnd"
  /\ net[k].phase \in {"ok", "err"}
  /\ net' = RemoveAt(net, k)
  /\ activeId' = NoId
  /\ last' = Other
  /\ UNCHANGED <<todos, weekStart, geom, dragging, snapTimers, db, nextId, saves, audit, failed, goals>>

---------------------------------------------------------------------------
(* Spec: the planner after mount in a wide window: an empty list, the first
   fetchTodos sent, the initial snap scheduled, an empty table.  The window
   is not resized here (SpecPack resizes it).  The handlers that send a
   call run here in settled states; SpecDel runs them while an answer is
   waiting *)

Init ==
  /\ todos = <<>>
  /\ activeId = NoId
  /\ weekStart = 0
  /\ geom = WideGeom
  /\ dragging = NoId
  /\ snapTimers = 1
  /\ db = <<>>
  /\ net = << Call("fetch", NoId, <<>>, "fetch") >>
  /\ nextId = 0
  /\ saves = <<>>
  /\ audit = {}
  /\ failed = {}
  /\ goals = <<>>
  /\ last = History("init", NoId, NoTodo, Pos(0, 0))

Next ==
  \/ \E p \in ClickPoints : dragging = NoId /\ HandleDoubleClick(p.x, p.y)
  \/ \E id \in 1..MaxIds, tempText \in {"", "a"} : Settled /\ HandleTextSubmit(id, tempText)
  \/ \E id \in 1..MaxIds : HandleDragStart(id)
  \/ Settled /\ DragEnd
  \/ \E w \in 0..MaxWeek : Settled /\ GoToWeek(w)
  \/ SnapTimer
  \/ AlignAllTasks
  \/ \E k \in 1..(MaxNet + MaxAwait), ok \in BOOLEAN : Serve(k, ok)
  \/ \E k \in 1..(MaxNet + MaxAwait) : FetchResume(k)
  \/ \E k \in 1..(MaxNet + MaxAwait) : DragEndResume(k)

Spec == Init /\ [][Next]_vars


---------------------------------------------------------------------------
(* SpecPack: column packing as a function of the list and the geometry.
   The list and the window are drawn in PackInit; the window is resized,
   and snapTodosToSections runs from its timers and from the align key *)

PackGeoms == {WideGeom, NarrowGeom, MidGeom, ScenarioGeom, ScenarioWideGeom}
PackBuckets == {<<NoDate, "none">>, <<NoDate, "backlog">>, <<0, "Monday">>, <<7, "Monday">>}
PackPoint == Pos(Px(5), Px(5))

(* Ten items scheduled on the Monday of week 0 *)
ScenarioTodos == [i \in 1..10 |-> MkTodo(i, "a", PackPoint, 0, "Monday", FALSE, TRUE)]

PackInit ==
  /\ geom \in PackGeoms
  /\ \/ \E n \in 0..MaxPack : \E f \in [1..n -> PackBuckets] :
          todos = [i \in 1..n |-> MkTodo(i, "a", PackPoint, f[i][1], f[i][2], FALSE, TRUE)]
     \/ todos = ScenarioTodos
  /\ activeId = NoId
  /\ weekStart = 0
  /\ dragging = NoId
  /\ snapTimers = 1
  /\ db = <<>>
  /\ net = <<>>
  /\ nextId = 0
  /\ saves = <<>>
  /\ audit = {}
  /\ failed = {}
  /\ goals = <<>>
  /\ last = History("init", NoId, NoTodo, Pos(0, 0))

PackNext ==
  \/ \E g \in PackGeoms : HandleResize(g)
  \/ SnapTimer
  \/ AlignAllTasks

SpecPack == PackInit /\ [][PackNext]_vars

---------------------------------------------------------------------------
(* SpecHit: hit-testing as a function of the point, the geometry and the
   viewed week, which are drawn in HitInit; each double-click on the canvas
   runs detectDateFromPosition on its point and keeps the point and the
   bucket detected in the new todo *)

HitGeoms == {WideGeom, NarrowGeom, OverlapGeom}
HitPoints == {Pos(Px(50), Px(50)), Pos(Px(200), Px(100)), Pos(Px(250), Px(150)),
              Pos(0, 0), Pos(Px(300), Px(300)), Pos(Px(150), Px(250)),
              Pos(Px(440), Px(100)), Pos(Px(432), Px(60)), Pos(Px(100), Px(400)),
              Pos(Px(8), Px(30)), Pos(Px(50), Px(350))}

HitInit ==
  /\ geom \in HitGeoms
  /\ weekStart \in 0..MaxWeek
  /\ todos = <<>>
  /\ activeId = NoId
  /\ dragging = NoId
  /\ snapTimers = 0
  /\ db = <<>>
  /\ net = <<>>
  /\ nextId = 0
  /\ saves = <<>>
  /\ audit = {}
  /\ failed = {}
  /\ goals = <<>>
  /\ last = History("init", NoId, NoTodo, Pos(0, 0))

HitNext == \E p \in HitPoints : HandleDoubleClick(p.x, p.y)

SpecHit == HitInit /\ [][HitNext]_vars


---------------------------------------------------------------------------
(* SpecDrag: handleDragEnd as a function of the canvas, the start
   coordinate and the delta.  One unscheduled item, whose first save has
   failed (so that the table holds no row of it), lies at a drawn coordinate
   under a drawn window and is dragged again and again *)

(* A window so small that the canvas is narrower than 80 px and lower than
   30 px *)
TinyGeom ==
  [canvas |-> Rect(0, 0, Px(50), Px(20)),
   zones |-> << Area("backlog", 0, 0, 50, 20) >>]

DragGeoms == {ScenarioGeom, WideGeom, TinyGeom}
DragStarts == {Pos(Px(120), Px(60)), Pos(0, 0), Pos(Px(700), Px(500))}
DragDeltas == {Pos(Px(50), Px(0 - 10)), Pos(Px(0 - 200), Px(0 - 200)), Pos(Px(900), Px(900))}

DragInit ==
  /\ geom \in DragGeoms
  /\ \E p \in DragStarts : todos = << MkTodo(1, "a", p, NoDate, "none", FALSE, TRUE) >>
  /\ db = <<>>
  /\ activeId = NoId
  /\ weekStart = 0
  /\ dragging = NoId
  /\ snapTimers = 0
  /\ net = <<>>
  /\ nextId = 1
  /\ saves = <<>>
  /\ audit = {}
  /\ failed = {}
  /\ goals = <<>>
  /\ last = History("init", NoId, NoTodo, Pos(0, 0))

DragNext ==
  \/ HandleDragStart(1)
  \/ \E delta \in DragDeltas : HandleDragEnd(delta)
  \/ \E k \in 1..(MaxNet + MaxAwait), ok \in BOOLEAN : Serve(k, ok)
  \/ \E k \in 1..(MaxNet + MaxAwait) : DragEndResume(k)

SpecDrag == DragInit /\ [][DragNext]_vars


---------------------------------------------------------------------------
(* SpecEdit: creating, editing, deleting and dragging items against the
   remote table, in the week of the first render and after the first
   fetchTodos has returned an empty table; the text handlers and the drop
   run in settled states *)

EditClickPoints == {Pos(Px(50), Px(100))}
EditTexts == {"", "a", "b"}
EditDropTargets == {Pos(Px(440), Px(100))}

EditInit ==
  /\ todos = <<>>
  /\ activeId = NoId
  /\ weekStart = 0
  /\ geom = WideGeom
  /\ dragging = NoId
  /\ snapTimers = 0
  /\ db = <<>>
  /\ net = <<>>
  /\ nextId = 0
  /\ saves = <<>>
  /\ audit = {}
  /\ failed = {}
  /\ goals = <<>>
  /\ last = History("init", NoId, NoTodo, Pos(0, 0))

EditNext ==
  \/ \E p \in EditClickPoints : dragging = NoId /\ HandleDoubleClick(p.x, p.y)
  \/ \E id \in 1..MaxIds, tempText \in EditTexts : Settled /\ HandleTextSubmit(id, tempText)
  \/ \E id \in 1..MaxIds : Settled /\ HandleTextEscape(id)
  \/ \E id \in 1..MaxIds : StartEditText(id)
  \/ \E id \in 1..MaxIds : HandleDragStart(id)
  \/ \E target \in EditDropTargets : Settled /\ DragEndTo(target)
  \/ \E k \in 1..(MaxNet + MaxAwait), ok \in BOOLEAN : Serve(k, ok)
  \/ \E k \in 1..(MaxNet + MaxAwait) : DragEndResume(k)

SpecEdit == EditInit /\ [][EditNext]_vars


---------------------------------------------------------------------------
(* SpecDel: deleting while the week is changed.  One unscheduled item has
   been created and saved; the user edits it, empties its text, and moves
   between weeks, each move reloading the list *)

DelItem == MkTodo(1, "a", Pos(Px(50), Px(100)), NoDate, "none", FALSE, TRUE)
DelTexts == {"", "b"}

DelInit ==
  /\ todos = << DelItem >>
  /\ activeId = NoId
  /\ weekStart = 0
  /\ geom = WideGeom
  /\ dragging = NoId
  /\ snapTimers = 0
  /\ db = << DbTodo(DelItem) >>
  /\ net = <<>>
  /\ nextId = 1
  /\ saves = << 1 >>
  /\ audit = {AuditRow(1, "created")}
  /\ failed = {}
  /\ goals = <<>>
  /\ last = History("init", NoId, NoTodo, Pos(0, 0))

DelNext ==
  \/ \E id \in 1..MaxIds : StartEditText(id)
  \/ \E id \in 1..MaxIds, tempText \in DelTexts : HandleTextSubmit(id, tempText)
  \/ \E id \in 1..MaxIds : HandleTextEscape(id)
  \/ \E w \in 0..MaxWeek : GoToWeek(w)
  \/ SnapTimer
  \/ \E k \in 1..(MaxNet + MaxAwait), ok \in BOOLEAN : Serve(k, ok)
  \/ \E k \in 1..(MaxNet + MaxAwait) : FetchResume(k)

SpecDel == DelInit /\ [][DelNext]_vars


---------------------------------------------------------------------------
(* SpecBucket: the bucket of an item under every handler that writes it:
   double-click and "t" creation, the drop of a drag, the task modal, the
   text edit, and the reload of a week change.  It starts when all ids
   but one have gone to items that were created and dropped with Escape
   before they were saved, so that the list and the table are empty *)

BucketClickPoints == {Pos(Px(440), Px(100))}
BucketCursorPoints == {Pos(Px(100), Px(550)), Pos(Px(0 - 5), Px(0 - 5))}
BucketDropTargets == {Pos(Px(440), Px(400)), Pos(Px(100), Px(550))}
BucketDays == {"backlog", "incomplete", "Monday", "Friday"}

BucketInit ==
  /\ todos = <<>>
  /\ activeId = NoId
  /\ weekStart = 0
  /\ geom = WideGeom
  /\ dragging = NoId
  /\ snapTimers = 0
  /\ db = <<>>
  /\ net = <<>>
  /\ nextId = MaxIds - 1
  /\ saves = <<>>
  /\ audit = {}
  /\ failed = {}
  /\ goals = <<>>
  /\ last = History("init", NoId, NoTodo, Pos(0, 0))

BucketNext ==
  \/ \E p \in BucketClickPoints : dragging = NoId /\ HandleDoubleClick(p.x, p.y)
  \/ \E p \in BucketCursorPoints : CreateTaskAtCursor(p.x, p.y)
  \/ \E id \in 1..MaxIds : Settled /\ HandleTextSubmit(id, "a")
  \/ \E id \in 1..MaxIds : HandleDragStart(id)
  \/ \E target \in BucketDropTargets : Settled /\ DragEndTo(target)
  \/ \E id \in 1..MaxIds, day \in BucketDays : Settled /\ HandleSaveTask(id, "b", << "1" >>, day)
  \/ \E day \in BucketDays : Settled /\ HandleSaveNewTask("b", << "1" >>, day)
  \/ \E w \in 0..MaxWeek : Settled /\ GoToWeek(w)
  \/ SnapTimer
  \/ \E k \in 1..(MaxNet + MaxAwait) : Serve(k, TRUE)
  \/ \E k \in 1..(MaxNet + MaxAwait) : FetchResume(k)
  \/ \E k \in 1..(MaxNet + MaxAwait) : DragEndResume(k)

SpecBucket == BucketInit /\ [][BucketNext]_vars


---------------------------------------------------------------------------
(* SpecHours: the estimate of an item under the hours input of the canvas
   item and the hours field of the task modal, with what a user can type
   into them; the list is reloaded by week changes.  It starts as
   SpecBucket does *)

HoursClickPoints == {Pos(Px(50), Px(100))}
HoursTyped == { <<>>, << "a" >>, << "0" >>, << "-", "1" >>, << "2" >>,
                << "0", ".", "5" >>, << "2", "a" >> }
HoursNames == {"", "b"}

HoursInit ==
  /\ todos = <<>>
  /\ activeId = NoId
  /\ weekStart = 0
  /\ geom = WideGeom
  /\ dragging = NoId
  /\ snapTimers = 0
  /\ db = <<>>
  /\ net = <<>>
  /\ nextId = MaxIds - 1
  /\ saves = <<>>
  /\ audit = {}
  /\ failed = {}
  /\ goals = <<>>
  /\ last = History("init", NoId, NoTodo, Pos(0, 0))

HoursNext ==
  \/ \E p \in HoursClickPoints : HandleDoubleClick(p.x, p.y)
  \/ \E id \in 1..MaxIds : Settled /\ HandleTextSubmit(id, "a")
  \/ \E id \in 1..MaxIds, typed \in HoursTyped : Settled /\ HandleHoursSubmit(id, typed)
  \/ \E id \in 1..MaxIds, taskName \in HoursNames, typed \in HoursTyped :
        Settled /\ HandleSaveTask(id, taskName, typed, "backlog")
  \/ \E typed \in HoursTyped : Settled /\ HandleSaveNewTask("b", typed, "incomplete")
  \/ \E w \in 0..MaxWeek : Settled /\ GoToWeek(w)
  \/ SnapTimer
  \/ \E k \in 1..(MaxNet + MaxAwait), ok \in BOOLEAN : Serve(k, ok)
  \/ \E k \in 1..(MaxNet + MaxAwait) : FetchResume(k)

SpecHours == HoursInit /\ [][HoursNext]_vars


---------------------------------------------------------------------------
(* SpecIds: the list under create, update, drag, delete and reload when the
   ids drawn for new items may repeat; every call is answered without an
   error, and the handlers of the user run in settled states *)

IdsClickPoints == {Pos(Px(50), Px(100))}
IdsTexts == {"", "a"}
IdsDropTargets == {Pos(Px(440), Px(100))}

IdsInit ==
  /\ todos = <<>>
  /\ activeId = NoId
  /\ weekStart = 0
  /\ geom = WideGeom
  /\ dragging = NoId
  /\ snapTimers = 0
  /\ db = <<>>
  /\ net = <<>>
  /\ nextId = 0
  /\ saves = <<>>
  /\ audit = {}
  /\ failed = {}
  /\ goals = <<>>
  /\ last = History("init", NoId, NoTodo, Pos(0, 0))

IdsNext ==
  \/ \E id \in 1..MaxIds, p \in IdsClickPoints :
       Settled /\ dragging = NoId /\ HandleDoubleClickDrawn(id, p.x, p.y)
  \/ \E id \in 1..MaxIds, tempText \in IdsTexts : Settled /\ HandleTextSubmit(id, tempText)
  \/ \E id \in 1..MaxIds : HandleDragStart(id)
  \/ \E target \in IdsDropTargets : Settled /\ DragEndTo(target)
  \/ \E w \in 0..MaxWeek : Settled /\ GoToWeek(w)
  \/ \E k \in 1..(MaxNet + MaxAwait) : Serve(k, TRUE)
  \/ \E k \in 1..(MaxNet + MaxAwait) : FetchResume(k)
  \/ \E k \in 1..(MaxNet + MaxAwait) : DragEndResume(k)

SpecIds == IdsInit /\ [][IdsNext]_vars

---------------------------------------------------------------------------
(* The goals views (GoalsDashboard, MobileGoals, GoalCard, GoalInput).  A
   goal keeps the fields the handlers below read or write; a specific
   period is a name ("Q1", "M1", "D1" for the current quarter, month and
   day, "Q2", "M2" for later ones), NoPeriod being null *)

NoPeriod == "none"
Periods == {"yearly", "quarterly", "monthly", "daily"}

MkGoal(id, period, isRecurring, specificPeriod, position) ==
  [id |-> id, period |-> period, isRecurring |-> isRecurring,
   specificPeriod |-> specificPeriod, status |-> "active", position |-> position,
   completionCount |-> 0]

FindGoal(list, id) ==
  IF \E k \in 1..Len(list) : list[k].id = id
  THEN CHOOSE k \in 1..Len(list) : list[k].id = id /\ \A j \in 1..(k - 1) : list[j].id # id
  ELSE 0

(* The specific period GoalInput fills in for a time horizon: the current
   quarter, month or day *)
CurrentPeriod(period) ==
  CASE period = "quarterly" -> "Q1" [] period = "monthly" -> "M1"
    [] period = "daily" -> "D1" [] OTHER -> NoPeriod

(* The form state of GoalInput when it opens: the goal's fields when
   editing, the default period and its current specific period otherwise *)
FormOfGoal(goal) ==
  [period |-> goal.period, isRecurring |-> goal.isRecurring,
   specificPeriod |-> goal.specificPeriod]
NewForm(defaultPeriod) ==
  [period |-> defaultPeriod, isRecurring |-> FALSE,
   specificPeriod |-> CurrentPeriod(defaultPeriod)]

(* What the user does in the form: choose a time horizon, choose recurring
   or specific, pick a specific period.  The radio buttons show for the
   horizons other than yearly, the pickers for a specific goal of them *)
FormOp(kind, value) == [kind |-> kind, value |-> value]
OpShown(form, o) ==
  CASE o.kind = "period" -> TRUE
    [] o.kind = "recurring" -> form.period # "yearly"
    [] OTHER -> form.period # "yearly" /\ ~form.isRecurring
ApplyOp(form, o) ==
  CASE o.kind = "period" ->
         IF o.value = "yearly"
         THEN [period |-> "yearly", isRecurring |-> FALSE, specificPeriod |-> NoPeriod]
         ELSE [form EXCEPT !.period = o.value, !.specificPeriod = CurrentPeriod(o.value)]
    [] o.kind = "recurring" -> [form EXCEPT !.isRecurring = o.value]
    [] OTHER -> [form EXCEPT !.specificPeriod = o.value]

RECURSIVE OpsShown(_, _)
OpsShown(form, ops) ==
  IF ops = <<>> THEN TRUE
  ELSE OpShown(form, Head(ops)) /\ OpsShown(ApplyOp(form, Head(ops)), Tail(ops))

RECURSIVE ApplyOps(_, _)
ApplyOps(form, ops) ==
  IF ops = <<>> THEN form ELSE ApplyOps(ApplyOp(form, Head(ops)), Tail(ops))

(* The form can be submitted: the month and the date picker are required
   inputs, and empty ones stop the submit; the quarter picker is a select
   whose options all have a value, so the browser never finds it empty *)
Submittable(form) ==
  (~form.isRecurring /\ form.period \in {"monthly", "daily"}) => form.specificPeriod # NoPeriod

(* handleSubmit of GoalInput: the goal data handed to onSave *)
SubmitData(form) ==
  [period |-> form.period, isRecurring |-> form.isRecurring,
   specificPeriod |-> IF form.period = "yearly" \/ form.isRecurring
                      THEN NoPeriod ELSE form.specificPeriod]

(* handleSaveGoal without a goal being edited: a new active goal, placed
   after the goals of its period *)
HandleSaveNewGoal(defaultPeriod, ops) ==
  /\ Len(goals) < MaxGoals
  /\ OpsShown(NewForm(defaultPeriod), ops)
  /\ Submittable(ApplyOps(NewForm(defaultPeriod), ops))
  /\ LET goalData == SubmitData(ApplyOps(NewForm(defaultPeriod), ops))
         samePeriod == {k \in 1..Len(goals) : goals[k].period = goalData.period}
     IN goals' = Append(goals, MkGoal(Len(goals) + 1, goalData.period, goalData.isRecurring,
                                       goalData.specificPeriod, Cardinality(samePeriod)))
  /\ last' = HistoryTyped("goalCreate", Len(goals) + 1, NoTodo, ops)
  /\ UNCHANGED <<todos, activeId, weekStart, geom, dragging, snapTimers, db, net, nextId,
                 saves, audit, failed>>

(* handleSaveGoal with a goal being edited: { ...editingGoal, ...goalData } *)
HandleSaveGoal(id, ops) ==
  /\ FindGoal(goals, id) # 0
  /\ LET editingGoal == goals[FindGoal(goals, id)]
         form == ApplyOps(FormOfGoal(editingGoal), ops)
     IN /\ OpsShown(FormOfGoal(editingGoal), ops)
        /\ Submittable(form)
        /\ goals' = [k \in 1..Len(goals) |->
                       IF goals[k].id = id THEN Merge(editingGoal, SubmitData(form)) ELSE goals[k]]
  /\ last' = HistoryTyped("goalSave", id, NoTodo, ops)
  /\ UNCHANGED <<todos, activeId, weekStart, geom, dragging, snapTimers, db, net, nextId,
                 saves, audit, failed>>

(* handleToggleComplete: a recurring goal counts one more completion, any
   other goal changes between active and completed *)
ToggledGoal(goal) ==
  IF goal.isRecurring
  THEN [goal EXCEPT !.completionCount = goal.completionCount + 1]
  ELSE [goal EXCEPT !.status = IF goal.status = "completed" THEN "active" ELSE "completed"]

GoalToggleComplete(id) ==
  /\ FindGoal(goals, id) # 0
  /\ goals[FindGoal(goals, id)].completionCount < MaxCount
  /\ goals' = [k \in 1..Len(goals) |-> IF goals[k].id = id THEN ToggledGoal(goals[k]) ELSE goals[k]]
  /\ last' = HistoryTyped("goalToggle", id, NoTodo, <<>>)
  /\ UNCHANGED <<todos, activeId, weekStart, geom, dragging, snapTimers, db, net, nextId,
                 saves, audit, failed>>

(* groupGoals: the goals of the dragged goal's group, as indices of the
   list sorted by position; Array.prototype.sort is stable *)
RECURSIVE InsertByPosition(_, _, _)
InsertByPosition(list, sorted, k) ==
  IF sorted = <<>> THEN << k >>
  ELSE IF list[Head(sorted)].position <= list[k].position
       THEN << Head(sorted) >> \o InsertByPosition(list, Tail(sorted), k)
       ELSE << k >> \o sorted

RECURSIVE SortByPosition(_, _)
SortByPosition(list, indices) ==
  IF indices = <<>> THEN <<>>
  ELSE InsertByPosition(list, SortByPosition(list, SubSeq(indices, 1, Len(indices) - 1)),
                        indices[Len(indices)])

GroupGoals(list, draggedGoal) ==
  LET member(k) == /\ list[k].period = draggedGoal.period
                   /\ list[k].isRecurring = draggedGoal.isRecurring
                   /\ list[k].specificPeriod = draggedGoal.specificPeriod
                   /\ list[k].status # "deleted"
  IN SortByPosition(list, SelectSeq([k \in 1..Len(list) |-> k], member))

IndexIn(sequence, x) ==
  IF \E i \in 1..Len(sequence) : sequence[i] = x
  THEN CHOOSE i \in 1..Len(sequence) : sequence[i] = x /\ \A j \in 1..(i - 1) : sequence[j] # x
  ELSE 0

(* An arrayMove that exchanges the two items, to tell from ArrayMove *)
ArraySwap(array, from, to) ==
  [i \in 1..Len(array) |-> IF i = from THEN array[to] ELSE IF i = to THEN array[from] ELSE array[i]]

(* arrayMove of @dnd-kit/sortable: the item at from is taken out and put in
   at to *)
ArrayMove(array, from, to) ==
  LET without == [i \in 1..(Len(array) - 1) |-> IF i < from THEN array[i] ELSE array[i + 1]]
  IN [i \in 1..Len(array) |->
        IF i < to THEN without[i] ELSE IF i = to THEN array[from] ELSE without[i - 1]]

(* over.id of a drop: the id of a goal card or the id of a droppable
   column *)
GoalColumns == {"yearly-column", "quarterly-column", "monthly-column", "daily-column"}
OverGoal(id) == [goal |-> id, column |-> ""]
OverColumn(column) == [goal |-> NoId, column |-> column]

(* The time horizon a droppable column stands for; the id of a goal names
   none *)
TargetPeriod(overId) ==
  CASE overId.column = "yearly-column" -> "yearly"
    [] overId.column = "quarterly-column" -> "quarterly"
    [] overId.column = "monthly-column" -> "monthly"
    [] overId.column = "daily-column" -> "daily"
    [] OTHER -> NoPeriod

(* handleDragEnd of GoalsDashboard: a drop on a goal of the same group
   reorders the group, a drop on the column of another time horizon moves
   the goal to it (handleUpdateGoal with { period }) *)
GoalsAfterDrop(list, goalId, overId) ==
  LET d == FindGoal(list, goalId)
      o == IF overId.goal = NoId THEN 0 ELSE FindGoal(list, overId.goal)
  IN IF d = 0 THEN list
     ELSE IF o # 0 /\ list[d].period = list[o].period
          THEN IF list[d].isRecurring = list[o].isRecurring
                  /\ list[d].specificPeriod = list[o].specificPeriod
               THEN LET groupGoals == GroupGoals(list, list[d])
                        oldIndex == IndexIn(groupGoals, d)
                        newIndex == IndexIn(groupGoals, o)
                    IN IF oldIndex # 0 /\ newIndex # 0 /\ oldIndex # newIndex
                       THEN LET reordered == ArrayMove(groupGoals, oldIndex, newIndex)
                            IN [k \in 1..Len(list) |->
                                  IF IndexIn(reordered, k) # 0
                                  THEN [list[k] EXCEPT !.position = IndexIn(reordered, k) - 1]
                                  ELSE list[k]]
                       ELSE list
               ELSE list
          ELSE IF TargetPeriod(overId) # NoPeriod /\ TargetPeriod(overId) # list[d].period
               THEN [k \in 1..Len(list) |->
                       IF list[k].id = goalId
                       THEN [list[k] EXCEPT !.period = TargetPeriod(overId)] ELSE list[k]]
               ELSE list

GoalDragEnd(goalId, overId) ==
  /\ FindGoal(goals, goalId) # 0
  /\ IF overId.goal = NoId THEN overId.column \in GoalColumns
     ELSE FindGoal(goals, overId.goal) # 0
  /\ goals' = GoalsAfterDrop(goals, goalId, overId)
  /\ last' = HistoryTyped("goalDrag", goalId, NoTodo, overId)
  /\ UNCHANGED <<todos, activeId, weekStart, geom, dragging, snapTimers, db, net, nextId,
                 saves, audit, failed>>

(* SpecGoals: the goals views from an empty list, with up to MaxEdited
   goals that are created, edited, completed and dragged *)

GoalDefaults == {"yearly", "quarterly"}
GoalForms == { <<>>, << FormOp("recurring", TRUE) >>, << FormOp("recurring", FALSE) >>,
               << FormOp("specific", "Q2") >>, << FormOp("period", "monthly") >> }
GoalDropColumns == {"yearly-column", "quarterly-column"}

GoalsInit ==
  /\ todos = <<>>
  /\ activeId = NoId
  /\ weekStart = 0
  /\ geom = WideGeom
  /\ dragging = NoId
  /\ snapTimers = 0
  /\ db = <<>>
  /\ net = <<>>
  /\ nextId = 0
  /\ saves = <<>>
  /\ audit = {}
  /\ failed = {}
  /\ goals = <<>>
  /\ last = History("init", NoId, NoTodo, Pos(0, 0))

GoalsNext ==
  \/ \E p \in GoalDefaults, ops \in GoalForms :
       Len(goals) < MaxEdited /\ HandleSaveNewGoal(p, ops)
  \/ \E id \in 1..MaxGoals, ops \in GoalForms : HandleSaveGoal(id, ops)
  \/ \E id \in 1..MaxGoals : GoalToggleComplete(id)
  \/ \E id \in 1..MaxGoals, over \in 1..MaxGoals : id # over /\ GoalDragEnd(id, OverGoal(over))
  \/ \E id \in 1..MaxGoals, over \in GoalDropColumns : GoalDragEnd(id, OverColumn(over))

SpecGoals == GoalsInit /\ [][GoalsNext]_vars

(* SpecReorder: up to MaxGoals goals that are created and dragged *)

ReorderNext ==
  \/ \E p \in GoalDefaults, ops \in GoalForms : HandleSaveNewGoal(p, ops)
  \/ \E id \in 1..MaxGoals, over \in 1..MaxGoals : id # over /\ GoalDragEnd(id, OverGoal(over))
  \/ \E id \in 1..MaxGoals, over \in GoalDropColumns : GoalDragEnd(id, OverColumn(over))

SpecReorder == GoalsInit /\ [][ReorderNext]_vars


---------------------------------------------------------------------------
(* What the properties below read of a state.  These restate the spec's
   notions and use none of the operators above that model the handlers. *)

InClosedRect(p, g, k) ==
  LET r == g.zones[k].rect
  IN /\ r.left - g.canvas.left <= p.x /\ p.x <= r.left + r.width - g.canvas.left
     /\ r.top - g.canvas.top <= p.y /\ p.y <= r.top + r.height - g.canvas.top

InOpenRect(p, g, k) ==
  LET r == g.zones[k].rect
  IN /\ r.left - g.canvas.left < p.x /\ p.x < r.left + r.width - g.canvas.left
     /\ r.top - g.canvas.top < p.y /\ p.y < r.top + r.height - g.canvas.top

ZonesAt(p, g) == {k \in 1..Len(g.zones) : InClosedRect(p, g, k)}
LowestOf(S) == CHOOSE k \in S : \A j \in S : k <= j

(* The bucket a day area stands for in week w *)
ZoneBucket(id, w) ==
  IF id = "incomplete" THEN [scheduledDate |-> NoDate, dayOfWeek |-> "none"]
  ELSE IF id = "backlog" THEN [scheduledDate |-> NoDate, dayOfWeek |-> "backlog"]
  ELSE [scheduledDate |-> 7 * w + (CHOOSE i \in 1..7 : DayNames[i] = id) - 1, dayOfWeek |-> id]

IsUnscheduled(t) == t.scheduledDate = NoDate /\ t.dayOfWeek # "backlog"

(* The released point: the pre-drag coordinate plus the delta, kept inside
   the canvas as handleDragEnd keeps it *)
ReleasePoint ==
  LET x == last.pre.position.x + last.delta.x
      y == last.pre.position.y + last.delta.y
      xMax == geom.canvas.width - Px(80)
      yMax == geom.canvas.height - Px(30)
  IN Pos(IF x < 0 \/ xMax < 0 THEN 0 ELSE IF x > xMax THEN xMax ELSE x,
         IF y < 0 \/ yMax < 0 THEN 0 ELSE IF y > yMax THEN yMax ELSE y)

(* The dragged item after a handleDragEnd that found it *)
Dropped == todos[FindTodo(todos, last.id)]
JustDropped == last.op = "dragEnd" /\ FindTodo(todos, last.id) # 0

(* The items of list that share the bucket of t, as indices *)
BucketMates(list, t) ==
  {j \in 1..Len(list) :
     IF t.dayOfWeek = "backlog" THEN list[j].dayOfWeek = "backlog"
     ELSE list[j].scheduledDate = t.scheduledDate /\ list[j].dayOfWeek # "backlog"}

AreaNamed(g, id) == {k \in 1..Len(g.zones) : g.zones[k].id = id}
AreaOfTodo(g, t) ==
  AreaNamed(g, IF t.dayOfWeek = "backlog" THEN "backlog" ELSE DayNames[(t.scheduledDate % 7) + 1])

(* Rows and columns a rect fits at the nominal row height *)
RowsPerColumn(r) ==
  LET rows == (r.height - Px(90) - Px(5)) \div Px(35) IN IF rows < 1 THEN 1 ELSE rows
MaxColumns(r) == (r.width - Px(20)) \div Px(190)

Abs(n) == IF n < 0 THEN 0 - n ELSE n

---------------------------------------------------------------------------
(* The properties *)

(* C1: when a drag ends at a clamped point outside every drop-zone
   rectangle, the dragged item's bucket (scheduledDate and dayOfWeek) after
   handleDragEnd equals its bucket before the drag. *)
C1_NoMatchKeepsBucket ==
  (JustDropped /\ ZonesAt(ReleasePoint, geom) = {}) => Bucket(Dropped) = Bucket(last.pre)

(* C2: after one snapTodosToSections pass, the N items of a bucket whose
   zone fits fewer than N slots at the nominal row height have pairwise
   distinct positions, no two of them in one column closer than the shrunk
   row height, and all inside the zone's rectangle. *)
C2_OverflowLaw ==
  last.op = "snap" =>
    \A i \in 1..Len(todos) :
      LET t == todos[i]
          mates == BucketMates(todos, t)
          N == Cardinality(mates)
      IN \A k \in (IF IsUnscheduled(t) THEN {} ELSE AreaOfTodo(geom, t)) :
           LET r == geom.zones[k].rect
               cols == MaxColumns(r)
               rowHeight == IF cols = 0 THEN 0
                            ELSE Min2(Px(35), (r.height - Px(95)) \div CeilDiv(N, cols))
           IN RowsPerColumn(r) * cols < N =>
                /\ InClosedRect(t.position, geom, k)
                /\ \A j \in mates \ {i} :
                     /\ todos[j].position # t.position
                     /\ todos[j].position.x = t.position.x =>
                          Abs(todos[j].position.y - t.position.y) >= rowHeight

(* The ten items of the scenario are in the list, in a zone "Monday" whose
   rect is g's, and one packing pass has run *)
ScenarioPacked(g) ==
  /\ geom = g
  /\ last.op = "snap"
  /\ Len(todos) = 10
  /\ \A i \in 1..10 : todos[i].scheduledDate = 0 /\ todos[i].dayOfWeek = "Monday"

ScenarioSlots ==
  \A i \in 1..10 :
    todos[i].position = IF i <= 8 THEN Pos(Px(10), Px(90 + 35 * (i - 1)))
                        ELSE Pos(Px(0 + 10 + 190), Px(90 + 35 * (i - 9)))

(* C3: for a zone with rect {left:0, top:0, width:170, height:400} holding
   10 items, one pass places items 0-7 in column 0 at y = 90, 125, ..., 335
   and items 8-9 in column 1 at x = 0+10+190 with y = 90 and 125. *)
C3_Scenario170 == ScenarioPacked(ScenarioGeom) => ScenarioSlots

(* C3 as amended: the same placement for the zone rect {left:0, top:0,
   width:400, height:400}, which is wide enough for two columns. *)
C3_Scenario400 == ScenarioPacked(ScenarioWideGeom) => ScenarioSlots
C3_Witness == ScenarioPacked(ScenarioWideGeom) /\ todos[9].position.x = Px(200)

(* C4: a point strictly inside one zone rectangle and in no other gets that
   zone's bucket: null for the incomplete zone, backlog for the backlog
   zone, and for a day zone the date of that day name in the viewed week.
   Every todo of SpecHit holds its creation point and the bucket detected
   there. *)
C4_InsideOneZone ==
  \A i \in 1..Len(todos) :
    LET Z == ZonesAt(todos[i].position, geom)
    IN (Cardinality(Z) = 1 /\ \A k \in Z : InOpenRect(todos[i].position, geom, k)) =>
         Bucket(todos[i]) = ZoneBucket(geom.zones[LowestOf(Z)].id, weekStart)
C4_Witness ==
  \E i \in 1..Len(todos) :
    LET Z == ZonesAt(todos[i].position, geom)
    IN /\ Cardinality(Z) = 1 /\ \A k \in Z : InOpenRect(todos[i].position, geom, k)
       /\ weekStart = 1
       /\ todos[i].scheduledDate = 7
       /\ \E j \in 1..Len(todos) : todos[j].dayOfWeek = "backlog"

(* C5: containment is closed on all four sides, and a point that lies in
   several zones gets the bucket of the first of them in declaration order. *)
C5_ClosedFirstWins ==
  \A i \in 1..Len(todos) :
    LET Z == ZonesAt(todos[i].position, geom)
    IN Z # {} => Bucket(todos[i]) = ZoneBucket(geom.zones[LowestOf(Z)].id, weekStart)
C5_Witness ==
  \E i \in 1..Len(todos) :
    LET Z == ZonesAt(todos[i].position, geom)
    IN /\ Cardinality(Z) >= 2
       /\ \A k \in Z : ~InOpenRect(todos[i].position, geom, k)
       /\ todos[i].dayOfWeek = "Monday"

(* C6: a second snapTodosToSections pass on the list a pass has left, under
   the same geometry, changes no coordinate. *)
C6_SnapIdempotent == last.op = "snap" => SnapTodosToSections(todos, geom) = todos
C6_Witness ==
  /\ last.op = "snap"
  /\ \E i, j \in 1..Len(todos) :
       /\ i < j
       /\ todos[i].scheduledDate = 0 /\ todos[j].scheduledDate = 0
       /\ todos[i].position # todos[j].position
       /\ todos[j].position # PackPoint

(* C7: a snapTodosToSections pass leaves every item with a null bucket (no
   scheduled date, not backlog) as it was, in its coordinate and in every
   other field. *)
C7_UnscheduledUntouched ==
  [][last'.op = "snap" =>
       /\ Len(todos') = Len(todos)
       /\ \A i \in 1..Len(todos) : IsUnscheduled(todos[i]) => todos'[i] = todos[i]]_vars
C7_Witness ==
  /\ last.op = "snap"
  /\ \E i, j \in 1..Len(todos) :
       /\ IsUnscheduled(todos[i]) /\ todos[i].position = PackPoint
       /\ ~IsUnscheduled(todos[j]) /\ todos[j].position # PackPoint

(* C8: when a drag ends in a zone whose bucket differs from the item's
   pre-drag bucket, the item's coordinate after handleDragEnd is its packed
   slot position. *)
C8_DropIsPacked ==
  (JustDropped /\ ZonesAt(ReleasePoint, geom) # {} /\ Bucket(Dropped) # Bucket(last.pre)) =>
    Dropped.position = SnapTodo(todos, FindTodo(todos, last.id), geom).position

(* C8 as amended: the coordinate after handleDragEnd is the raw clamped
   drop point; the packed slot is given by a later snapTodosToSections
   pass. *)
C8_DropIsRaw ==
  (JustDropped /\ ZonesAt(ReleasePoint, geom) # {} /\ Bucket(Dropped) # Bucket(last.pre)) =>
    Dropped.position = ReleasePoint
C8_Witness ==
  /\ JustDropped /\ ZonesAt(ReleasePoint, geom) # {} /\ Bucket(Dropped) # Bucket(last.pre)
  /\ Dropped.scheduledDate # NoDate
  /\ Dropped.position # SnapTodo(todos, FindTodo(todos, last.id), geom).position

(* C9: once handleDragEnd has run for a drag, also for a drag whose item has
   left the list, activeId is null: with no gesture in progress and no
   handleDragEnd waiting to resume, activeId = null. *)
C9_DragReturnsToIdle ==
  (dragging = NoId /\ \A k \in 1..Len(net) : net[k].cont # "dragEnd") => activeId = NoId

(* C10: on pointer release activeId is null without waiting for the update
   call: right after handleDragEnd has rewritten the item, activeId = null. *)
C10_ReleaseDoesNotWait == last.op = "dragEnd" => activeId = NoId


(* C11: on drag end the new coordinate is the original coordinate plus the
   delta, clamped to the canvas: to 0 <= x <= canvas width and
   0 <= y <= canvas height. *)
C11_ClampedToCanvas ==
  JustDropped =>
    LET x == last.pre.position.x + last.delta.x
        y == last.pre.position.y + last.delta.y
        W == geom.canvas.width
        H == geom.canvas.height
    IN Dropped.position = Pos(IF x < 0 THEN 0 ELSE IF x > W THEN W ELSE x,
                              IF y < 0 THEN 0 ELSE IF y > H THEN H ELSE y)

(* C11 as amended: the sum is clamped to 0 <= x <= max(0, canvas width - 80)
   and 0 <= y <= max(0, canvas height - 30), which keeps it inside the
   canvas; {120,60} moved by {50,-10} in an 800x600 canvas ends at {170,50}. *)
C11_ClampedWithMargin ==
  JustDropped =>
    LET x == last.pre.position.x + last.delta.x
        y == last.pre.position.y + last.delta.y
        W == geom.canvas.width
        H == geom.canvas.height
        xMax == IF W - Px(80) < 0 THEN 0 ELSE W - Px(80)
        yMax == IF H - Px(30) < 0 THEN 0 ELSE H - Px(30)
        p == Dropped.position
    IN /\ p.x = (IF x < 0 THEN 0 ELSE IF x > xMax THEN xMax ELSE x)
       /\ p.y = (IF y < 0 THEN 0 ELSE IF y > yMax THEN yMax ELSE y)
       /\ 0 <= p.x /\ p.x <= W /\ 0 <= p.y /\ p.y <= H
       /\ (W = Px(800) /\ H = Px(600) /\ last.pre.position = Pos(Px(120), Px(60))
             /\ last.delta = Pos(Px(50), Px(0 - 10))) => p = Pos(Px(170), Px(50))
C11_Witness ==
  /\ JustDropped
  /\ geom.canvas.width = Px(800) /\ geom.canvas.height = Px(600)
  /\ last.pre.position = Pos(Px(120), Px(60))
  /\ last.delta = Pos(Px(50), Px(0 - 10))
  /\ Dropped.position = Pos(Px(170), Px(50))

(* The ids saveTodoToDatabase has been called with, and the calls of a list
   that the server has not answered *)
Saved(list) == {list[i] : i \in 1..Len(list)}
Unanswered(calls) == {i \in 1..Len(calls) : calls[i].phase = "sent"}

(* C12: committing an empty label on an item that was already persisted
   drops the edit: the item stays in the list with its previous label and
   is not soft-deleted. *)
C12_BlankCommitDropsEdit ==
  (/\ last.op = "blankSubmit"
   /\ last.pre.isInDatabase
   /\ \E r \in 1..Len(db) : db[r].id = last.id /\ db[r].status # "deleted") =>
    /\ FindTodo(todos, last.id) # 0
    /\ todos[FindTodo(todos, last.id)].text = last.pre.text
    /\ \A i \in 1..Len(net) : net[i].cont # "delete"

(* C13: Escape on a newly created item with a null bucket and an empty
   label removes it from the list without a call of saveTodoToDatabase for
   it; and an item that has left the list unsaved stays out of the list and
   unsaved. *)
C13_EscapeDiscardsNew ==
  [][/\ (/\ last'.op = "escape"
         /\ last'.pre.text = ""
         /\ ~last'.pre.isInDatabase
         /\ IsUnscheduled(last'.pre))
        => (FindTodo(todos', last'.id) = 0 /\ last'.id \notin Saved(saves'))
     /\ \A id \in 1..nextId :
          (FindTodo(todos, id) = 0 /\ id \notin Saved(saves))
            => (FindTodo(todos', id) = 0 /\ id \notin Saved(saves'))]_vars
C13_Witness ==
  /\ last.op = "escape"
  /\ last.pre.text = "" /\ ~last.pre.isInDatabase /\ IsUnscheduled(last.pre)
  /\ FindTodo(todos, last.id) = 0
  /\ last.id \notin Saved(saves)
  /\ Len(todos) = 1 /\ todos[1].id \in Saved(saves)

(* C14: saveTodoToDatabase is called once per item, at the first update
   that leaves the unsaved item with a non-blank label and an estimate > 0:
   no id is saved twice, and a listed item has been saved exactly when its
   label is non-blank and its estimate > 0. *)
C14_SavedOnce ==
  /\ \A i, j \in 1..Len(saves) : i # j => saves[i] # saves[j]
  /\ \A k \in 1..Len(todos) :
       (todos[k].text # "" /\ todos[k].estimatedHours > 0) <=> todos[k].id \in Saved(saves)
C14_Witness ==
  /\ Len(saves) = 1
  /\ \E k \in 1..Len(todos) :
       /\ todos[k].id \in Saved(saves)
       /\ AuditRow(todos[k].id, "updated") \in audit
       /\ todos[k].scheduledDate # NoDate
  /\ \E k \in 1..Len(todos) : todos[k].id \notin Saved(saves)

(* C15: the list is updated in the step that sends the call, and a failed
   create, update or soft-delete leaves the list as it is and is not sent
   again. *)
C15_OptimisticNoRollback ==
  [][/\ last'.op = "failed"
        => (todos' = todos /\ Cardinality(Unanswered(net')) < Cardinality(Unanswered(net)))
     /\ (last'.op \in {"textSubmit", "dragEnd"} /\ Len(net') > Len(net))
        => LET c == net'[Len(net')]
               k == FindTodo(todos', c.id)
           IN /\ c.phase = "sent"
              /\ k # 0
              /\ c.kind = "upsert" => c.payload = DbTodo(todos'[k])
              /\ (c.kind = "update" /\ last'.op = "textSubmit")
                   => c.payload.text = todos'[k].text
              /\ last'.op = "dragEnd"
                   => /\ c.payload.position_x = todos'[k].position.x
                      /\ c.payload.position_y = todos'[k].position.y
                      /\ c.payload.scheduleddate = todos'[k].scheduledDate
     /\ (last'.op \in {"blankSubmit", "escape"} /\ Len(net') > Len(net))
        => (net'[Len(net')].phase = "sent" /\ FindTodo(todos', last'.id) = 0)]_vars
C15_Witness ==
  /\ last.op = "failed"
  /\ last.id \in Saved(saves)
  /\ FindTodo(todos, last.id) # 0
  /\ todos[FindTodo(todos, last.id)].isInDatabase
  /\ \A r \in 1..Len(db) : db[r].id # last.id

(* C16: once a write for an item succeeds after an earlier write for it has
   failed, the remote row exists and agrees with the local item on label,
   estimate, status, coordinate and bucket. *)
C16_ConvergesOnSuccess ==
  (last.op = "served" /\ last.id \in failed /\ FindTodo(todos, last.id) # 0) =>
    \E r \in 1..Len(db) : db[r] = DbTodo(todos[FindTodo(todos, last.id)])

(* C17: a todo_history row is written for a mutation only after the
   mutation's call to the todos table has succeeded. *)
C17_AuditAfterSuccess ==
  [][\A r \in audit' \ audit : last'.op = "served" /\ last'.id = r.todo_id]_vars

(* C18: a resize event that arrives while a resize-triggered re-layout is
   pending supersedes it: the number of pending passes does not grow. *)
C18_ResizeDebounced ==
  [][(last.op = "resize" /\ last'.op = "resize") => snapTimers' = snapTimers]_vars

(* C18 as amended: every resize event schedules one more re-layout pass, and
   a pending pass leaves only by running. *)
C18_ResizeSchedulesEach ==
  [][/\ last'.op = "resize" => snapTimers' = snapTimers + 1
     /\ snapTimers' < snapTimers => (last'.op = "snap" /\ snapTimers' = snapTimers - 1)]_vars
C18_Witness == last.op = "resize" /\ snapTimers = 2 /\ Len(todos) > 0

(* C19: an item whose row is marked deleted is not in the list: what
   deleteTodo has removed does not come back, whichever way a reload and
   the delete interleave. *)
C19_DeletedStaysGone ==
  \A i \in 1..Len(todos) : \A k \in 1..Len(db) :
     db[k].id = todos[i].id => db[k].status # "deleted"

(* The weekday name of a day number, day 0 being a Monday *)
WeekdayName(d) ==
  CASE d % 7 = 0 -> "Monday" [] d % 7 = 1 -> "Tuesday" [] d % 7 = 2 -> "Wednesday"
    [] d % 7 = 3 -> "Thursday" [] d % 7 = 4 -> "Friday" [] d % 7 = 5 -> "Saturday"
    [] OTHER -> "Sunday"

(* C20: every item has one bucket: a scheduled date never comes with the
   backlog marker, and with a scheduled date dayOfWeek is the weekday name
   of that date; in the list and in the rows written from it. *)
C20_OneBucket ==
  /\ \A i \in 1..Len(todos) :
        todos[i].scheduledDate # NoDate =>
          /\ todos[i].dayOfWeek # "backlog"
          /\ todos[i].dayOfWeek = WeekdayName(todos[i].scheduledDate)
  /\ \A k \in 1..Len(db) :
        db[k].scheduleddate # NoDate =>
          /\ db[k].dayOfWeek # "backlog"
          /\ db[k].dayOfWeek = WeekdayName(db[k].scheduleddate)
C20_Witness ==
  /\ last.op = "modalSave"
  /\ last.pre.dayOfWeek = "backlog"
  /\ \E i \in 1..Len(todos) :
        /\ todos[i].id = last.id
        /\ todos[i].scheduledDate # NoDate
        /\ todos[i].dayOfWeek = "Friday"

(* The item a creation has just added, and the point it was created at:
   the double-click point, or for the "t" key the mouse position, replaced
   by the centre of the canvas when the mouse is outside of it *)
JustCreated == last.op \in {"doubleClick", "createAtCursor"} /\ FindTodo(todos, last.id) # 0
Created == todos[FindTodo(todos, last.id)]
CreationPoint ==
  IF last.op = "createAtCursor"
     /\ (last.delta.x < 0 \/ last.delta.y < 0
         \/ last.delta.x > geom.canvas.width \/ last.delta.y > geom.canvas.height)
  THEN Pos(geom.canvas.width \div 2, geom.canvas.height \div 2)
  ELSE last.delta
BucketAt(p) ==
  IF ZonesAt(p, geom) = {} THEN [scheduledDate |-> NoDate, dayOfWeek |-> "none"]
  ELSE ZoneBucket(geom.zones[LowestOf(ZonesAt(p, geom))].id, weekStart)

(* C21: right after its creation by double-click or by the "t" key an item
   has no bucket, is being edited, and sits at the creation point. *)
C21_CreatedUnscheduled ==
  JustCreated =>
    /\ Created.scheduledDate = NoDate
    /\ Created.dayOfWeek = "none"
    /\ Created.isEditing
    /\ Created.position = CreationPoint

(* C21 as amended: right after its creation an item has the bucket of the
   day area the creation point is in (none outside of every day area), is
   being edited with an empty text, and sits at the creation point. *)
C21_CreatedWhereClicked ==
  JustCreated =>
    /\ Created.scheduledDate = BucketAt(CreationPoint).scheduledDate
    /\ Created.dayOfWeek = BucketAt(CreationPoint).dayOfWeek
    /\ Created.isEditing
    /\ Created.text = ""
    /\ Created.position = CreationPoint
C21_Witness ==
  /\ JustCreated
  /\ last.op = "createAtCursor"
  /\ last.delta.x < 0
  /\ Created.position = Pos(geom.canvas.width \div 2, geom.canvas.height \div 2)

(* The typed strings that are numerals of a positive number *)
PositiveNumerals == { << "2" >>, << "0", ".", "5" >>, << "1" >> }

(* C22: every estimate is positive, in the list and in the table; an hours
   edit committed with anything but a positive number leaves the estimate
   as it was, and the modal saves nothing with such a value. *)
C22_EstimatePositive ==
  /\ \A i \in 1..Len(todos) : todos[i].estimatedHours > 0
  /\ \A k \in 1..Len(db) : db[k].estimatedHours > 0
  /\ (last.op = "hoursSubmit" /\ last.typed \notin PositiveNumerals)
       => \A i \in 1..Len(todos) :
            todos[i].id = last.id => todos[i].estimatedHours = last.pre.estimatedHours
  /\ last.op \in {"modalSave", "modalCreate"} => last.typed \in PositiveNumerals
  /\ (last.op = "modalRefused" /\ last.pre.text # "")
       => \A i \in 1..Len(todos) : todos[i].id = last.id => todos[i] = last.pre
C22_Witness ==
  /\ last.op = "hoursSubmit"
  /\ last.typed = << "-", "1" >>
  /\ last.pre.estimatedHours = Hr(2)
  /\ \E i \in 1..Len(todos) : todos[i].id = last.id /\ todos[i].estimatedHours = Hr(2)


(* C23: a recurring goal is never completed: in every reachable state of the
   goals views (create, edit with a switch between specific and recurring,
   toggle-complete, drag) every goal with isRecurring = TRUE has status
   "active" *)
C23_RecurringNeverCompleted ==
  \A k \in 1..Len(goals) : goals[k].isRecurring => goals[k].status = "active"

(* The recurring/period rule of the schema, for one goal *)
PeriodRule(goal) ==
  /\ goal.isRecurring => goal.specificPeriod = NoPeriod
  /\ goal.period = "yearly" => goal.specificPeriod = NoPeriod
  /\ (~goal.isRecurring /\ goal.period \in {"quarterly", "monthly", "daily"})
       => goal.specificPeriod # NoPeriod

(* C24: every goal the client holds satisfies the recurring/period rule: a
   recurring goal and a yearly goal have no specific period, a specific
   quarterly, monthly or daily goal has one; also after a drop on the column
   of another time horizon *)
C24_PeriodRuleHolds ==
  \A k \in 1..Len(goals) : PeriodRule(goals[k])

SameGroup(g, h) ==
  g.period = h.period /\ g.isRecurring = h.isRecurring /\ g.specificPeriod = h.specificPeriod

(* The index a goal has in its group before the drop: the number of goals
   of the group shown before it *)
FormerIndex(list, k) ==
  Cardinality({j \in 1..Len(list) :
                 /\ SameGroup(list[j], list[k])
                 /\ \/ list[j].position < list[k].position
                    \/ list[j].position = list[k].position /\ j < k})

(* C29: a drop of a goal on another goal of its group reorders only the
   group: the positions of the group become exactly 0..n-1, the dragged
   goal takes the index the target had, the other goals of the group keep
   their order, the goals outside the group and the number of goals are
   unchanged, and nothing but a position changes; a drop on a goal of
   another group changes nothing *)
C29_ReorderOnlyGroup ==
  [][(last'.op = "goalDrag" /\ last'.typed.goal # NoId) =>
       LET d == FindGoal(goals, last'.id)
           o == FindGoal(goals, last'.typed.goal)
           group == {k \in 1..Len(goals) : SameGroup(goals[k], goals[d])}
       IN IF SameGroup(goals[d], goals[o])
          THEN /\ Len(goals') = Len(goals)
               /\ \A k \in 1..Len(goals) :
                    /\ goals'[k] = [goals[k] EXCEPT !.position = goals'[k].position]
                    /\ k \notin group => goals'[k] = goals[k]
               /\ {goals'[k].position : k \in group} = 0..(Cardinality(group) - 1)
               /\ goals'[d].position = FormerIndex(goals, o)
               /\ \A j, k \in group \ {d} :
                    FormerIndex(goals, j) < FormerIndex(goals, k)
                      => goals'[j].position < goals'[k].position
          ELSE goals' = goals]_vars

C29_Witness ==
  /\ last.op = "goalDrag"
  /\ last.id = 1
  /\ last.typed.goal # NoId
  /\ FindGoal(goals, 1) # 0
  /\ FindGoal(goals, last.typed.goal) # 0
  /\ SameGroup(goals[FindGoal(goals, 1)], goals[FindGoal(goals, last.typed.goal)])
  /\ Cardinality({k \in 1..Len(goals) : SameGroup(goals[k], goals[FindGoal(goals, 1)])}) = 3
  /\ goals[FindGoal(goals, 1)].position = 2


(* C25: after one snapTodosToSections pass, a bucketed item with k earlier
   items of its bucket in list order, in a zone with
   rowsPerColumn = max(1, floor((height - 90 - 5) / 35)), is at
   x = zoneLeft + 10 + floor(k / rowsPerColumn) * 190 and
   y = zoneTop + 90 + (k mod rowsPerColumn) * 35 whenever
   floor(k / rowsPerColumn) is below the zone's maximum column count: the
   items of a bucket take the slots 0..N-1 in insertion order *)
C25_NominalSlots ==
  last.op = "snap" =>
    \A i \in 1..Len(todos) :
      LET t == todos[i]
          k == Cardinality({j \in BucketMates(todos, t) : j < i})
      IN \A a \in (IF IsUnscheduled(t) THEN {} ELSE AreaOfTodo(geom, t)) :
           LET r == geom.zones[a].rect
               rows == RowsPerColumn(r)
           IN (k \div rows) < MaxColumns(r) =>
                t.position = Pos(r.left + Px(10) + (k \div rows) * Px(190),
                                 r.top + Px(90) + (k % rows) * Px(35))

C25_Witness ==
  /\ geom = WideGeom
  /\ last.op = "snap"
  /\ Len(todos) = 4
  /\ \A i \in 1..4 : todos[i].scheduledDate = 0 /\ todos[i].dayOfWeek = "Monday"
  /\ todos[4].position = Pos(Px(16 + 416 + 10 + 190), Px(60 + 90))


(* C26: while a drag is in progress activeId is the id of the dragged item,
   under every interleaving: the handleDragEnd of an earlier drag that
   resumes during a new drag does not reset activeId *)
C26_ActiveWhileDragging == dragging # NoId => activeId = dragging


(* An item whose creation has been committed locally: a label that is not
   blank, a positive estimate, isInDatabase set *)
Committed(t) == t.text # "" /\ t.estimatedHours > 0 /\ t.isInDatabase

(* The create call of the item has not stored a row: it is in flight or it
   has failed *)
NotStored(id) == \A r \in 1..Len(db) : db[r].id # id

(* C27: an item whose creation has been committed locally stays in the list
   when a reload arrives while its create call is in flight or after that
   call failed: no fetchTodos resumption removes such an item *)
C27_ReloadKeepsCommitted ==
  [][\A k \in 1..(MaxNet + MaxAwait) :
       FetchResume(k) =>
         \A i \in 1..Len(todos) :
           (Committed(todos[i]) /\ NotStored(todos[i].id)) => FindTodo(todos', todos[i].id) # 0]_vars


(* C28: no soft-delete call and no "deleted" audit row is issued for an
   item whose create call was never issued: every delete call in flight and
   every "deleted" row is for an item saveTodoToDatabase was called for *)
C28_NoDeleteForUnsaved ==
  /\ \A k \in 1..Len(net) : net[k].cont = "delete" => net[k].id \in Saved(saves)
  /\ \A r \in audit : r.event_type = "deleted" => r.todo_id \in Saved(saves)


(* C30: no two items of the local list share an id, after any sequence of
   create, update, drag, delete and reload; and an addTodo for an id the
   list holds leaves the list unchanged *)
C30_UniqueIds ==
  /\ [](\A i, j \in 1..Len(todos) : todos[i].id = todos[j].id => i = j)
  /\ [][(last'.op = "addTodo" /\ FindTodo(todos, last'.id) # 0) => todos' = todos]_vars

C30_Witness ==
  /\ last.op = "addTodo"
  /\ last.pre # NoTodo
  /\ last.pre.text = "a"
  /\ Len(todos) = 2
  /\ FindTodo(todos, last.id) # 0
  /\ todos[FindTodo(todos, last.id)] = last.pre

====
